---- MODULE Spec2Model ----
(***************************************************************************)
(* Activity tracker (src/src/App.jsx, lines 1-612, with JournalPanel.jsx   *)
(* and TrendGraph.jsx): the session store, the journal store, the          *)
(* display-name and usage maps, the add-session form and the date          *)
(* navigation, as a state machine; the aggregator, the autocomplete        *)
(* ranking and the time-range helpers as operators applied by small        *)
(* specifications of their own.                                            *)
(*                                                                         *)
(* Strings are sequences of one-character strings.  A calendar date of the *)
(* application state is a day number (ISO dates are zero padded, so their  *)
(* string order is the order of the day numbers); the time-range helpers   *)
(* work on year-month-day records and on epoch minutes, because there the  *)
(* conversion between local and UTC fields is the point.                   *)
(***************************************************************************)
EXTENDS Integers, Sequences, FiniteSets, TLC

(* ------------------------------ bounds --------------------------------- *)
MaxId == 3
MaxNow == 2
MaxLen == 3

(* ------------------------------ inputs --------------------------------- *)
NameInputs == { <<>>, <<" ">>, <<"r">>, <<"R", " ">>, <<"s">> }
HourInputs == { <<>>, <<"1">>, <<"-", "1">>, <<"x">> }
MinuteInputs == { <<>>, <<"3", "0">>, <<"6", "0">>, <<"-", "5">>, <<"x">> }
JournalTexts == { <<"t">> }
EditedTexts == { <<"s">> }
StoreNames == { <<"r">>, <<"R", " ">>, <<"s">> }
StoreHours == { <<>> }
StoreMinutes == { <<"3", "0">> }
(* what localStorage can hold at launch *)
StoredNames == { <<"r">>, <<" ", "R">>, <<"s">> }
StoredMinutes == {1, 2}
RankedNames == { <<"r">>, <<"s">>, <<"T">> }
(* reference dates of the trend panel and offsets of local time from UTC,  *)
(* in minutes east                                                         *)
RefYears == {2024, 2025}
TimeZones == {-720, -300, 0, 120, 840}
TimeRanges == {"day", "week", "month", "year"}
(* the days that can be viewed; the clock starts on the last of them *)
Days == {1, 2}
LastDay == CHOOSE d \in Days : \A e \in Days : e <= d

(* ------------------------- string primitives --------------------------- *)
IsSpace(c) == c = " "

ToLowerChar(c) ==
  CASE c = "R" -> "r"
    [] c = "S" -> "s"
    [] c = "T" -> "t"
    [] OTHER -> c

ToLowerCase(s) == [i \in 1..Len(s) |-> ToLowerChar(s[i])]

RECURSIVE TrimStart(_)
TrimStart(s) ==
  IF s = <<>> THEN <<>>
  ELSE IF IsSpace(Head(s)) THEN TrimStart(Tail(s)) ELSE s

RECURSIVE TrimEnd(_)
TrimEnd(s) ==
  IF s = <<>> THEN <<>>
  ELSE IF IsSpace(s[Len(s)]) THEN TrimEnd(SubSeq(s, 1, Len(s) - 1)) ELSE s

Trim(s) == TrimEnd(TrimStart(s))

(* String.prototype.includes *)
Includes(s, sub) ==
  \E i \in 0..(Len(s) - Len(sub)) : SubSeq(s, i + 1, i + Len(sub)) = sub

CharRank(c) ==
  CASE c = " " -> 0
    [] c = "r" -> 1
    [] c = "R" -> 2
    [] c = "s" -> 3
    [] c = "S" -> 4
    [] c = "t" -> 5
    [] c = "T" -> 6
    [] OTHER -> 7

(* String.prototype.localeCompare: -1, 0 or 1 *)
RECURSIVE LocaleCompare(_, _)
LocaleCompare(a, b) ==
  IF a = <<>> /\ b = <<>> THEN 0
  ELSE IF a = <<>> THEN -1
  ELSE IF b = <<>> THEN 1
  ELSE IF CharRank(Head(a)) < CharRank(Head(b)) THEN -1
  ELSE IF CharRank(Head(a)) > CharRank(Head(b)) THEN 1
  ELSE LocaleCompare(Tail(a), Tail(b))

(* ------------------------- number conversion --------------------------- *)
IsDigit(c) == c \in {"0", "1", "2", "3", "4", "5", "6", "7", "8", "9"}

DigitVal(c) ==
  CASE c = "0" -> 0 [] c = "1" -> 1 [] c = "2" -> 2 [] c = "3" -> 3
    [] c = "4" -> 4 [] c = "5" -> 5 [] c = "6" -> 6 [] c = "7" -> 7
    [] c = "8" -> 8 [] c = "9" -> 9 [] OTHER -> 0

RECURSIVE DigitsVal(_)
DigitsVal(s) ==
  IF s = <<>> THEN 0
  ELSE 10 * DigitsVal(SubSeq(s, 1, Len(s) - 1)) + DigitVal(s[Len(s)])

AllDigits(s) == s # <<>> /\ \A i \in 1..Len(s) : IsDigit(s[i])

NaN == [k |-> "nan", v |-> 0]
Num(n) == [k |-> "num", v |-> n]

(* Number(string) on whole numbers: blank is 0, an optionally signed run   *)
(* of digits is its value; text that is no number is NaN (decimal and      *)
(* exponent notation are read by NumberOfText below)                       *)
Number(s) ==
  LET t == Trim(s) IN
  IF t = <<>> THEN Num(0)
  ELSE IF AllDigits(t) THEN Num(DigitsVal(t))
  ELSE IF Head(t) = "-" /\ AllDigits(Tail(t)) THEN Num(0 - DigitsVal(Tail(t)))
  ELSE IF Head(t) = "+" /\ AllDigits(Tail(t)) THEN Num(DigitsVal(Tail(t)))
  ELSE NaN

(* x || 0 on a number: NaN and 0 are falsy *)
OrZero(n) == IF n.k = "nan" \/ n.v = 0 THEN Num(0) ELSE n

IsFinite(n) == n.k = "num"

(* ---------------------- activity name helpers -------------------------- *)
normalizeActivityName(name) == ToLowerCase(Trim(name))

getDisplayName(normalizedName, names) ==
  IF normalizedName \in DOMAIN names /\ names[normalizedName] # <<>>
  THEN names[normalizedName]
  ELSE normalizedName

addDays(iso, n) == iso + n

(* { ...prev, [key]: value } *)
Spread(prev, key, value) ==
  [k \in (DOMAIN prev) \cup {key} |-> IF k = key THEN value ELSE prev[k]]

EmptyMap == [k \in {} |-> 0]

(* ------------------------- calendar arithmetic ------------------------- *)
(* A Date object is its time value, here in minutes since the epoch; its   *)
(* local fields are those of the time value plus the zone offset tz.       *)
IsLeapYear(y) == (y % 4 = 0 /\ y % 100 # 0) \/ y % 400 = 0

DaysInMonth(y, m) ==
  IF m \in {4, 6, 9, 11} THEN 30
  ELSE IF m = 2 THEN (IF IsLeapYear(y) THEN 29 ELSE 28)
  ELSE 31

(* days from 1970-01-01 to the civil date y-m-d (d may lie outside the     *)
(* month: day 0 is the last day of the month before)                       *)
DaysFromCivil(y, m, d) ==
  LET yy == IF m <= 2 THEN y - 1 ELSE y
      era == yy \div 400
      yoe == yy - era * 400
      mp == IF m > 2 THEN m - 3 ELSE m + 9
      doy == (153 * mp + 2) \div 5 + d - 1
      doe == yoe * 365 + yoe \div 4 - yoe \div 100 + doy
  IN era * 146097 + doe - 719468

CivilFromDays(z) ==
  LET zz == z + 719468
      era == zz \div 146097
      doe == zz - era * 146097
      yoe == (doe - doe \div 1460 + doe \div 36524 - doe \div 146096) \div 365
      doy == doe - (365 * yoe + yoe \div 4 - yoe \div 100)
      mp == (5 * doy + 2) \div 153
      d == doy - (153 * mp + 2) \div 5 + 1
      m == IF mp < 10 THEN mp + 3 ELSE mp - 9
      y == yoe + era * 400 + (IF m <= 2 THEN 1 ELSE 0)
  IN [y |-> y, m |-> m, d |-> d]

MinutesPerDay == 24 * 60

(* new Date(iso + "T00:00:00"): midnight of the date in local time *)
DateFromLocalISO(iso, tz) == DaysFromCivil(iso.y, iso.m, iso.d) * MinutesPerDay - tz

LocalDay(t, tz) == (t + tz) \div MinutesPerDay
LocalTimeOfDay(t, tz) == (t + tz) % MinutesPerDay

(* Date.prototype.getDay: 0 is Sunday; 1970-01-01 was a Thursday *)
getDay(t, tz) == (LocalDay(t, tz) + 4) % 7

getDate(t, tz) == CivilFromDays(LocalDay(t, tz)).d

getMonth(t, tz) == CivilFromDays(LocalDay(t, tz)).m - 1

(* Date.prototype.setMonth(month, date) in local time; month is 0-based    *)
(* and, like date, may overflow                                            *)
setMonth(t, tz, month, date) ==
  LET local == CivilFromDays(LocalDay(t, tz))
      y == local.y + month \div 12
      m == (month % 12) + 1
  IN (DaysFromCivil(y, m, 1) + date - 1) * MinutesPerDay + LocalTimeOfDay(t, tz) - tz

(* Date.prototype.setDate(date) in local time *)
setDate(t, tz, date) == setMonth(t, tz, getMonth(t, tz), date)

(* toISOString().split('T')[0]: the date of the time value in UTC *)
toISOString(t) == CivilFromDays(t \div MinutesPerDay)

(* ------------------------ time-range helpers --------------------------- *)
getTimeRangeStart(referenceDate, range, tz) ==
  LET ref == DateFromLocalISO(referenceDate, tz)
      dayOfWeek == getDay(ref, tz)
      mondayOffset == IF dayOfWeek = 0 THEN -6 ELSE 1 - dayOfWeek
  IN CASE range = "week" -> toISOString(setDate(ref, tz, getDate(ref, tz) + mondayOffset))
       [] range = "month" -> toISOString(setDate(ref, tz, 1))
       [] range = "year" -> toISOString(setMonth(ref, tz, 0, 1))
       [] OTHER -> referenceDate

getTimeRangeEnd(referenceDate, range, tz) ==
  LET ref == DateFromLocalISO(referenceDate, tz)
      dayOfWeek == getDay(ref, tz)
      sundayOffset == IF dayOfWeek = 0 THEN 0 ELSE 7 - dayOfWeek
  IN CASE range = "week" -> toISOString(setDate(ref, tz, getDate(ref, tz) + sundayOffset))
       [] range = "month" -> toISOString(setMonth(ref, tz, getMonth(ref, tz) + 1, 0))
       [] range = "year" -> toISOString(setMonth(ref, tz, 11, 31))
       [] OTHER -> referenceDate

(* ------------------------------ state ---------------------------------- *)
VARIABLES
  sessions,        \* useState sessions: sequence of [id, activity, minutes, dateISO]
  journalEntries,  \* useState journalEntries: [id, text, timestamp, dateISO, word]
  activityUsage,   \* normalized name -> last-used timestamp
  activityNames,   \* normalized name -> display name
  dateISO,         \* the viewed date
  todayISO,        \* toISODate(new Date()) of the last render
  now,             \* Date.now()
  selectedWord, isPanelOpen,
  activity, hours, minutes, error,
  showDropdown, activityInput,
  last,            \* the effect of the last handler, if it was the cascade delete
  call             \* the pure function applied last, its arguments and result

store == <<sessions, journalEntries, activityUsage, activityNames>>
view == <<dateISO, todayISO, now, selectedWord, isPanelOpen>>
form == <<activity, hours, minutes, error, showDropdown, activityInput>>
vars == <<sessions, journalEntries, activityUsage, activityNames, dateISO,
          todayISO, now, selectedWord, isPanelOpen, activity, hours, minutes,
          error, showDropdown, activityInput, last, call>>

NoError == [msg |-> "", name |-> <<>>]
Err(m) == [msg |-> m, name |-> <<>>]
(* what the last handler did when it was the cascade delete: dS and dJ are *)
(* the changes in the number of sessions and of journal entries            *)
Ran(op, dS, dJ) == [op |-> op, dS |-> dS, dJ |-> dJ]
NoCascade == Ran("other", 0, 0)
NoCall == [fn |-> "none"]

(* crypto.randomUUID(): an id no stored record has.  Ids are only compared  *)
(* for equality, so the smallest free one stands for any fresh one.        *)
usedIds ==
  {sessions[i].id : i \in 1..Len(sessions)}
    \cup {journalEntries[i].id : i \in 1..Len(journalEntries)}

idAvailable == usedIds # 1..MaxId

randomUUID ==
  CHOOSE id \in (1..MaxId) \ usedIds : \A other \in (1..MaxId) \ usedIds : id <= other

(* --------------------------- aggregation ------------------------------- *)
(* Map.prototype.get / set on an insertion-ordered list of [key, value]    *)
MapHas(map, key) == \E i \in 1..Len(map) : map[i].key = key

MapGetOr0(map, key) ==
  IF MapHas(map, key)
  THEN map[CHOOSE i \in 1..Len(map) : map[i].key = key].value
  ELSE 0

MapSet(map, key, value) ==
  IF MapHas(map, key)
  THEN [i \in 1..Len(map) |->
          IF map[i].key = key THEN [key |-> key, value |-> value] ELSE map[i]]
  ELSE Append(map, [key |-> key, value |-> value])

aggregateKey(s) == normalizeActivityName(s.activity)

(* variant: a later session replaces the total instead of adding to it *)
aggregateStep_overwrite(map, s) == MapSet(map, aggregateKey(s), s.minutes)

aggregateStep(map, s) ==
  MapSet(map, aggregateKey(s), MapGetOr0(map, aggregateKey(s)) + s.minutes)

RECURSIVE aggregateLoop(_, _, _)
aggregateLoop(ss, isoDate, map) ==
  IF ss = <<>> THEN map
  ELSE IF Head(ss).dateISO # isoDate THEN aggregateLoop(Tail(ss), isoDate, map)
  ELSE aggregateLoop(Tail(ss), isoDate, aggregateStep(map, Head(ss)))

aggregateForDate(ss, isoDate, names) ==
  LET map == aggregateLoop(ss, isoDate, <<>>) IN
  [i \in 1..Len(map) |->
     [text |-> getDisplayName(map[i].key, names), value |-> map[i].value]]

cloudData == aggregateForDate(sessions, dateISO, activityNames)

(* The aggregateForDate of the earlier App component kept in the same file *)
(* (same storage key for the sessions, no display-name map): the key is    *)
(* s.activity.trim(), and the key itself is the entry's text.              *)
trimKey(s) == Trim(s.activity)

RECURSIVE trimKeyLoop(_, _, _)
trimKeyLoop(ss, isoDate, map) ==
  IF ss = <<>> THEN map
  ELSE IF Head(ss).dateISO # isoDate THEN trimKeyLoop(Tail(ss), isoDate, map)
  ELSE trimKeyLoop(Tail(ss), isoDate,
                   MapSet(map, trimKey(Head(ss)),
                          MapGetOr0(map, trimKey(Head(ss))) + Head(ss).minutes))

aggregateForDate_trimKey(ss, isoDate) ==
  LET map == trimKeyLoop(ss, isoDate, <<>>) IN
  [i \in 1..Len(map) |-> [text |-> map[i].key, value |-> map[i].value]]

(* ----------------------- autocomplete ranking -------------------------- *)
(* [...new Set(sessions.map(normalize))]: first occurrences, in order      *)
(* variant: one key for every session, repeats included *)
uniqueNormalizedActivities_everySession(ss) ==
  [i \in 1..Len(ss) |-> normalizeActivityName(ss[i].activity)]

RECURSIVE uniqueNormalizedActivities(_)
uniqueNormalizedActivities(ss) ==
  IF ss = <<>> THEN <<>>
  ELSE LET front == uniqueNormalizedActivities(SubSeq(ss, 1, Len(ss) - 1))
           k == normalizeActivityName(ss[Len(ss)].activity)
       IN IF \E i \in 1..Len(front) : front[i] = k THEN front
          ELSE Append(front, k)

(* activityUsage[key] || 0 *)
usageTime(usage, key) ==
  IF key \in DOMAIN usage THEN usage[key] ELSE 0

(* variant: usage alone decides, by subtraction *)
compareActivities_subtract(a, b, usage) ==
  usageTime(usage, normalizeActivityName(b))
    - usageTime(usage, normalizeActivityName(a))

compareActivities(a, b, usage) ==
  LET aTime == usageTime(usage, normalizeActivityName(a))
      bTime == usageTime(usage, normalizeActivityName(b))
  IN IF aTime > 0 /\ bTime > 0 THEN bTime - aTime
     ELSE IF aTime > 0 /\ bTime = 0 THEN -1
     ELSE IF bTime > 0 /\ aTime = 0 THEN 1
     ELSE LocaleCompare(ToLowerCase(a), ToLowerCase(b))

(* Array.prototype.sort is stable: an element goes after every element     *)
(* that does not compare greater than it                                   *)
RECURSIVE sortInsert(_, _, _)
sortInsert(sorted, x, usage) ==
  IF sorted = <<>> THEN <<x>>
  ELSE IF compareActivities(sorted[Len(sorted)], x, usage) > 0
       THEN Append(sortInsert(SubSeq(sorted, 1, Len(sorted) - 1), x, usage),
                   sorted[Len(sorted)])
       ELSE Append(sorted, x)

RECURSIVE sortActivities(_, _)
sortActivities(list, usage) ==
  IF list = <<>> THEN <<>>
  ELSE sortInsert(sortActivities(SubSeq(list, 1, Len(list) - 1), usage),
                  list[Len(list)], usage)

allActivitiesOf(ss, usage, names) ==
  LET keys == uniqueNormalizedActivities(ss)
      displayActivities == [i \in 1..Len(keys) |-> getDisplayName(keys[i], names)]
  IN sortActivities(displayActivities, usage)

allActivities == allActivitiesOf(sessions, activityUsage, activityNames)

filteredActivities ==
  IF Trim(activityInput) = <<>> THEN allActivities
  ELSE LET Shown(a) == Includes(ToLowerCase(a), ToLowerCase(activityInput))
       IN SelectSeq(allActivities, Shown)

(* --------------------------- addSession -------------------------------- *)
hoursInvalid(h) == ~IsFinite(h) \/ h.v < 0

(* variant: no upper limit on the minutes field *)
minutesInvalid_noUpper(m) == ~IsFinite(m) \/ m.v < 0

minutesInvalid(m) == ~IsFinite(m) \/ m.v < 0 \/ m.v > 59

(* variant: the viewed date is not looked at *)
validationError_anyDate(isFuture, name, hoursValue, minutesValue, totalMinutes) ==
  IF name = <<>> THEN "Enter an activity."
  ELSE IF hoursInvalid(hoursValue) THEN "Hours must be >= 0."
  ELSE IF minutesInvalid(minutesValue) THEN "Minutes must be between 0 and 59."
  ELSE IF totalMinutes <= 0 THEN "Total time must be greater than 0."
  ELSE ""

(* the message of the first check that fails, "" when all pass *)
validationError(isFuture, name, hoursValue, minutesValue, totalMinutes) ==
  IF isFuture THEN "You can't add sessions for a future date."
  ELSE IF name = <<>> THEN "Enter an activity."
  ELSE IF hoursInvalid(hoursValue) THEN "Hours must be >= 0."
  ELSE IF minutesInvalid(minutesValue) THEN "Minutes must be between 0 and 59."
  ELSE IF totalMinutes <= 0 THEN "Total time must be greater than 0."
  ELSE ""

(* variant: the stored text is compared as it was typed *)
isExistingActivity_raw(session, normalizedName, iso) ==
  session.activity = normalizedName /\ session.dateISO = iso

isExistingActivity(session, normalizedName, iso) ==
  normalizeActivityName(session.activity) = normalizedName /\ session.dateISO = iso

(* variant: the message names the key instead of the recorded spelling *)
duplicateError_typed(normalizedName, names) ==
  [msg |-> "Activity already exists for this date.", name |-> normalizedName]

duplicateError(normalizedName, names) ==
  [msg |-> "Activity already exists for this date.",
   name |-> getDisplayName(normalizedName, names)]

(* variant: a recorded spelling is never replaced *)
nextActivityNames_ifAbsent(prev, normalizedName, name) ==
  IF normalizedName \in DOMAIN prev THEN prev ELSE Spread(prev, normalizedName, name)

(* variant: the map is rebuilt from the submitted name alone *)
nextActivityNames_onlySubmitted(prev, normalizedName, name) ==
  [k \in {normalizedName} |-> name]

(* variant: the name is stored under itself, as typed *)
nextActivityNames_underTypedName(prev, normalizedName, name) ==
  Spread(prev, name, name)

nextActivityNames(prev, normalizedName, name) == Spread(prev, normalizedName, name)

(* addSession run on the form fields a, h, m; input and shown are the      *)
(* dropdown's fields that it leaves alone when it rejects                  *)
AddSessionOn(a, h, m, input, shown) ==
  LET isFuture == dateISO > todayISO
      name == Trim(a)
      hoursValue == OrZero(Number(h))
      minutesValue == OrZero(Number(m))
      totalMinutes == hoursValue.v * 60 + minutesValue.v
      invalid == validationError(isFuture, name, hoursValue, minutesValue, totalMinutes)
      normalizedName == normalizeActivityName(name)
      existingActivity ==
        \E i \in 1..Len(sessions) : isExistingActivity(sessions[i], normalizedName, dateISO)
  IN
  IF invalid # "" \/ existingActivity
  THEN /\ error' = IF invalid # "" THEN Err(invalid)
                   ELSE duplicateError(normalizedName, activityNames)
       /\ activity' = a
       /\ hours' = h
       /\ minutes' = m
       /\ activityInput' = input
       /\ showDropdown' = shown
       /\ last' = NoCascade
       /\ UNCHANGED <<store, view, call>>
  ELSE /\ idAvailable
       /\ error' = NoError
       /\ activityUsage' = Spread(activityUsage, normalizedName, now)
       /\ activityNames' = nextActivityNames(activityNames, normalizedName, name)
       /\ sessions' = Append(sessions, [id |-> randomUUID, activity |-> name,
                                        minutes |-> totalMinutes, dateISO |-> dateISO])
       /\ activity' = <<>>
       /\ hours' = <<>>
       /\ minutes' = <<>>
       /\ activityInput' = <<>>
       /\ showDropdown' = FALSE
       /\ last' = NoCascade
       /\ UNCHANGED <<journalEntries, view, call>>

(* the submit handler, on the form as it stands *)
AddSession == AddSessionOn(activity, hours, minutes, activityInput, showDropdown)

(* the user fills in the three fields and submits: handleActivityChange,   *)
(* setHours and setMinutes store what was typed (and open the dropdown),   *)
(* then addSession runs on it                                              *)
TypeAndSubmit(value, h, m) == AddSessionOn(value, h, m, value, TRUE)

(* ------------------------ clearDay / clearAll -------------------------- *)
(* variant: the journal entries of the cleared date go with its sessions *)
ClearDay_withJournal(confirmed) ==
    LET Kept(s) == s.dateISO # dateISO
    IN /\ sessions' = IF confirmed THEN SelectSeq(sessions, Kept) ELSE sessions
       /\ journalEntries' = IF confirmed THEN SelectSeq(journalEntries, Kept)
                                         ELSE journalEntries
       /\ last' = NoCascade
       /\ UNCHANGED <<activityUsage, activityNames, view, form, call>>

ClearDay(confirmed) ==
    LET Kept(s) == s.dateISO # dateISO
        next == IF confirmed THEN SelectSeq(sessions, Kept) ELSE sessions
    IN /\ sessions' = next
       /\ last' = NoCascade
       /\ UNCHANGED <<journalEntries, activityUsage, activityNames, view, form,
                      call>>

ClearAll(confirmed) ==
    LET next == IF confirmed THEN <<>> ELSE sessions
    IN /\ sessions' = next
       /\ last' = NoCascade
       /\ UNCHANGED <<journalEntries, activityUsage, activityNames, view, form,
                      call>>

(* ---------------------------- journal ---------------------------------- *)
HandleWordClick ==
  LET words == cloudData IN
  \E i \in 1..Len(words) :
    /\ selectedWord' = words[i].text
    /\ isPanelOpen' = TRUE
    /\ last' = NoCascade
    /\ UNCHANGED <<store, dateISO, todayISO, now, form, call>>

HandleClosePanel ==
  /\ isPanelOpen
  /\ isPanelOpen' = FALSE
  /\ selectedWord' = <<>>
  /\ last' = NoCascade
  /\ UNCHANGED <<store, dateISO, todayISO, now, form, call>>

(* JournalPanel.handleSave, then App.handleSaveJournalEntry *)
HandleSaveJournalEntry(journalText) ==
    /\ isPanelOpen
    /\ Trim(journalText) # <<>>
    /\ idAvailable
    /\ journalEntries' = Append(journalEntries,
         [id |-> randomUUID, text |-> Trim(journalText), timestamp |-> now,
          dateISO |-> dateISO, word |-> selectedWord])
    /\ last' = NoCascade
    /\ UNCHANGED <<sessions, activityUsage, activityNames, view, form, call>>

(* variant: every entry is rewritten, whatever its id *)
HandleUpdateJournalEntry_everyEntry(entryId, newText) ==
    /\ journalEntries' =
         [i \in 1..Len(journalEntries) |->
            [journalEntries[i] EXCEPT !.text = newText, !.timestamp = now]]
    /\ last' = NoCascade
    /\ UNCHANGED <<sessions, activityUsage, activityNames, view, form, call>>

HandleUpdateJournalEntry(entryId, newText) ==
    /\ journalEntries' =
         [i \in 1..Len(journalEntries) |->
            IF journalEntries[i].id = entryId
            THEN [journalEntries[i] EXCEPT !.text = newText, !.timestamp = now]
            ELSE journalEntries[i]]
    /\ last' = NoCascade
    /\ UNCHANGED <<sessions, activityUsage, activityNames, view, form, call>>

HandleDeleteJournalEntry(entryId) ==
    LET Kept(e) == e.id # entryId
        next == SelectSeq(journalEntries, Kept)
    IN /\ journalEntries' = next
       /\ last' = NoCascade
       /\ UNCHANGED <<sessions, activityUsage, activityNames, view, form, call>>

showsEntry(entry, normalizedSelected, iso) ==
  normalizeActivityName(entry.word) = normalizedSelected /\ entry.dateISO = iso

currentJournalEntries ==
  IF selectedWord = <<>> THEN <<>>
  ELSE LET Shown(e) == showsEntry(e, normalizeActivityName(selectedWord), dateISO)
       IN SelectSeq(journalEntries, Shown)

(* variant: the stored spelling is compared as it is *)
deletesSession_asSpelled(session, normalizedSelected, iso) ==
  session.activity = normalizedSelected /\ session.dateISO = iso

(* variant: the date is not looked at *)
deletesSession_anyDate(session, normalizedSelected, iso) ==
  normalizeActivityName(session.activity) = normalizedSelected

deletesSession(session, normalizedSelected, iso) ==
  normalizeActivityName(session.activity) = normalizedSelected /\ session.dateISO = iso

deletesEntry(entry, normalizedSelected, iso) ==
  normalizeActivityName(entry.word) = normalizedSelected /\ entry.dateISO = iso

HandleDeleteActivity ==
  IF selectedWord = <<>>
  THEN /\ last' = NoCascade
       /\ UNCHANGED <<store, view, form, call>>
  ELSE LET normalizedSelected == normalizeActivityName(selectedWord)
           KeptS(s) == ~deletesSession(s, normalizedSelected, dateISO)
           KeptE(e) == ~deletesEntry(e, normalizedSelected, dateISO)
       IN /\ sessions' = SelectSeq(sessions, KeptS)
          /\ journalEntries' = SelectSeq(journalEntries, KeptE)
          /\ isPanelOpen' = FALSE
          /\ selectedWord' = <<>>
          /\ last' = Ran("handleDeleteActivity",
                         Len(sessions') - Len(sessions),
                         Len(journalEntries') - Len(journalEntries))
          /\ UNCHANGED <<activityUsage, activityNames, dateISO, todayISO, now,
                         form, call>>

(* ----------------------- form and dropdown ----------------------------- *)
handleActivityFocus ==
  /\ showDropdown' = TRUE
  /\ activityInput' = activity
  /\ last' = NoCascade
  /\ UNCHANGED <<store, view, activity, hours, minutes, error>>

HandleActivityFocus == handleActivityFocus /\ UNCHANGED call

HandleActivityChange(value) ==
    /\ activity' = value
    /\ activityInput' = value
    /\ showDropdown' = TRUE
    /\ last' = NoCascade
    /\ UNCHANGED <<store, view, hours, minutes, error, call>>

HandleActivitySelect ==
  \E i \in 1..Len(filteredActivities) :
    LET selectedActivity == filteredActivities[i] IN
    /\ showDropdown
    /\ activity' = selectedActivity
    /\ activityInput' = selectedActivity
    /\ showDropdown' = FALSE
    /\ activityUsage' = Spread(activityUsage, normalizeActivityName(selectedActivity), now)
    /\ last' = NoCascade
    /\ UNCHANGED <<sessions, journalEntries, activityNames, view, hours, minutes,
                   error, call>>

(* The activity input with its focus and the hide timers of its blurs.    *)
(* handleActivityBlur only schedules: setTimeout(() => setShowDropdown(    *)
(* false), 150), and nothing ever clears a timer it scheduled.             *)
MaxTimers == 2

FocusInput ==
  /\ ~call.focused
  /\ handleActivityFocus
  /\ call' = [call EXCEPT !.focused = TRUE]

HandleActivityBlur ==
  /\ call.focused
  /\ call.timers < MaxTimers
  /\ call' = [call EXCEPT !.focused = FALSE, !.timers = @ + 1]
  /\ last' = NoCascade
  /\ UNCHANGED <<store, view, form>>

(* one scheduled callback runs: setShowDropdown(false)                     *)
HideTimerFires ==
  /\ call.timers > 0
  /\ showDropdown' = FALSE
  /\ call' = [call EXCEPT !.timers = @ - 1]
  /\ last' = NoCascade
  /\ UNCHANGED <<store, view, activity, hours, minutes, error, activityInput>>

(* e.target.value of an <input type="number">: text that is not a number  *)
(* reads as the empty string                                               *)
valueOfNumberInput(typed) == IF IsFinite(Number(typed)) THEN typed ELSE <<>>

SetHours(value) ==
    /\ hours' = valueOfNumberInput(value)
    /\ last' = NoCascade
    /\ UNCHANGED <<store, view, activity, minutes, error, showDropdown,
                   activityInput, call>>

SetMinutes(value) ==
    /\ minutes' = valueOfNumberInput(value)
    /\ last' = NoCascade
    /\ UNCHANGED <<store, view, activity, hours, error, showDropdown,
                   activityInput, call>>

(* ------------------------- date navigation ----------------------------- *)
atToday == dateISO = todayISO

Navigate(d) ==
  /\ dateISO' = d
  /\ last' = NoCascade
  /\ UNCHANGED <<store, todayISO, now, selectedWord, isPanelOpen, form, call>>

PrevDay == addDays(dateISO, -1) \in Days /\ Navigate(addDays(dateISO, -1))

NextDay ==
  /\ ~atToday
  /\ Navigate(IF dateISO >= todayISO THEN dateISO ELSE addDays(dateISO, 1))

Today == Navigate(todayISO)

PickDate(v) == Navigate(IF v > todayISO THEN todayISO ELSE v)

(* ------------------------------ clock ---------------------------------- *)
Tick ==
  /\ now < MaxNow
  /\ now' = now + 1
  /\ last' = NoCascade
  /\ UNCHANGED <<store, dateISO, todayISO, selectedWord, isPanelOpen, form, call>>

(* toISODate(new Date()) of the next render: the local calendar date of    *)
(* the system clock, which moves on at midnight and moves back when the    *)
(* clock or the time zone of the device is set back                        *)
ReadClock(d) ==
  /\ d \in Days
  /\ todayISO' = d
  /\ last' = NoCascade
  /\ UNCHANGED <<store, dateISO, now, selectedWord, isPanelOpen, form, call>>

(* the journal panel is modal: its backdrop covers the page while it is    *)
(* open, so the page's controls are reached only while it is closed        *)
pageReachable == ~isPanelOpen

(* ------------------------- the application ----------------------------- *)
(* first launch: nothing in localStorage *)
Init ==
  /\ sessions = <<>>
  /\ journalEntries = <<>>
  /\ activityUsage = EmptyMap
  /\ activityNames = EmptyMap
  /\ todayISO = LastDay
  /\ dateISO = todayISO
  /\ now = 1
  /\ selectedWord = <<>>
  /\ isPanelOpen = FALSE
  /\ activity = <<>>
  /\ hours = <<>>
  /\ minutes = <<>>
  /\ error = NoError
  /\ showDropdown = FALSE
  /\ activityInput = <<>>
  /\ last = NoCascade
  /\ call = NoCall

(* The session store, driven by whole user gestures. *)
Next ==
  \/ pageReachable /\ \E value \in StoreNames, h \in StoreHours, m \in StoreMinutes :
       TypeAndSubmit(value, h, m)
  \/ pageReachable /\ \E confirmed \in BOOLEAN : ClearDay(confirmed)
  \/ pageReachable /\ \E confirmed \in BOOLEAN : ClearAll(confirmed)
  \/ pageReachable /\ HandleWordClick
  \/ HandleClosePanel
  \/ HandleDeleteActivity
  \/ pageReachable /\ PrevDay
  \/ pageReachable /\ NextDay
  \/ pageReachable /\ Today

Spec == Init /\ [][Next]_vars

(* The session store with the journal. *)
NextJournal ==
  \/ pageReachable /\ \E value \in StoreNames, h \in StoreHours, m \in StoreMinutes :
       TypeAndSubmit(value, h, m)
  \/ pageReachable /\ HandleWordClick
  \/ HandleClosePanel
  \/ \E journalText \in JournalTexts : HandleSaveJournalEntry(journalText)
  \/ HandleDeleteActivity
  \/ pageReachable /\ PrevDay
  \/ pageReachable /\ NextDay

SpecJournal == Init /\ [][NextJournal]_vars

(* The journal together with the two clear buttons and the date bar. *)
NextClear ==
  \/ pageReachable /\ \E value \in StoreNames, h \in StoreHours, m \in StoreMinutes :
       TypeAndSubmit(value, h, m)
  \/ pageReachable /\ \E confirmed \in BOOLEAN : ClearDay(confirmed)
  \/ pageReachable /\ \E confirmed \in BOOLEAN : ClearAll(confirmed)
  \/ pageReachable /\ HandleWordClick
  \/ HandleClosePanel
  \/ \E journalText \in JournalTexts : HandleSaveJournalEntry(journalText)
  \/ HandleDeleteActivity
  \/ pageReachable /\ PrevDay
  \/ pageReachable /\ NextDay

SpecClear == Init /\ [][NextClear]_vars

(* Every handler that writes the stores, the journal's editing included;  *)
(* JournalPanel calls the update and delete handlers with an entry's id.   *)
NextStores ==
  \/ pageReachable /\ \E value \in StoreNames, h \in StoreHours, m \in StoreMinutes :
       TypeAndSubmit(value, h, m)
  \/ pageReachable /\ \E confirmed \in BOOLEAN : ClearDay(confirmed)
  \/ pageReachable /\ \E confirmed \in BOOLEAN : ClearAll(confirmed)
  \/ pageReachable /\ HandleWordClick
  \/ HandleClosePanel
  \/ \E journalText \in JournalTexts : HandleSaveJournalEntry(journalText)
  \/ isPanelOpen /\ \E entryId \in 1..MaxId, newText \in EditedTexts :
       HandleUpdateJournalEntry(entryId, newText)
  \/ isPanelOpen /\ \E entryId \in 1..MaxId : HandleDeleteJournalEntry(entryId)
  \/ HandleDeleteActivity
  \/ Tick

SpecStores == Init /\ [][NextStores]_vars

(* The date bar and the submit button, while the device's clock moves. *)
NextDates ==
  \/ \E value \in StoreNames, h \in StoreHours, m \in StoreMinutes :
       TypeAndSubmit(value, h, m)
  \/ PrevDay
  \/ NextDay
  \/ Today
  \/ \E v \in Days : PickDate(v)
  \/ \E d \in Days : ReadClock(d)

SpecDates == Init /\ [][NextDates]_vars

(* --------------- addSession: the duration arithmetic ------------------- *)
(* JavaScript numbers beyond the whole ones: a finite value is held in     *)
(* tenths, or as digit * 10^exp when it is too large for that; Infinity is *)
(* what a product or a literal above the largest double (about 1.797e308)  *)
(* becomes.                                                                *)
Tenths(n) == [k |-> "num", v |-> n]
Large(digit, exp) == [k |-> "large", c |-> digit, e |-> exp]
Infinity == [k |-> "inf"]

RECURSIVE Pow10(_)
Pow10(n) == IF n <= 0 THEN 1 ELSE 10 * Pow10(n - 1)

(* c * 10^x exceeds the largest double, for 0 < c < 1000 *)
Overflows(c, x) == x >= 305 /\ (x > 310 \/ c * Pow10(x - 305) > 1797)

IndexOf(s, c) ==
  IF \E i \in 1..Len(s) : s[i] = c
  THEN CHOOSE i \in 1..Len(s) : s[i] = c /\ \A j \in 1..(i - 1) : s[j] # c
  ELSE 0

(* Number(string) for the texts an <input type="number"> can hold: whole   *)
(* numbers, one decimal place, a one-digit mantissa with an exponent       *)
NumberOfText(s) ==
  LET t == Trim(s)
      dot == IndexOf(t, ".")
      e == IndexOf(t, "e")
  IN IF IsFinite(Number(s)) THEN Tenths(10 * Number(s).v)
     ELSE IF /\ dot > 1 /\ dot = Len(t) - 1
             /\ AllDigits(SubSeq(t, 1, dot - 1)) /\ IsDigit(t[Len(t)])
          THEN Tenths(10 * DigitsVal(SubSeq(t, 1, dot - 1)) + DigitVal(t[Len(t)]))
     ELSE IF e = 2 /\ IsDigit(t[1]) /\ AllDigits(SubSeq(t, 3, Len(t)))
          THEN LET c == DigitVal(t[1])
                   x == DigitsVal(SubSeq(t, 3, Len(t)))
               IN IF c = 0 THEN Tenths(0)
                  ELSE IF Overflows(c, x) THEN Infinity
                  ELSE IF x <= 3 THEN Tenths(10 * c * Pow10(x))
                  ELSE Large(c, x)
     ELSE NaN

(* x || 0 *)
orZero(x) == IF x.k = "nan" \/ (x.k = "num" /\ x.v = 0) THEN Tenths(0) ELSE x

(* (hoursValue * 60) + minutesValue *)
times60(x) ==
  CASE x.k = "num" -> Tenths(60 * x.v)
    [] x.k = "large" -> IF Overflows(6 * x.c, x.e + 1) THEN Infinity ELSE Large(6 * x.c, x.e + 1)
    [] OTHER -> x

plus(a, b) ==
  IF a.k = "nan" \/ b.k = "nan" THEN NaN
  ELSE IF a.k = "inf" \/ b.k = "inf" THEN Infinity
  ELSE IF a.k = "large" THEN a
  ELSE IF b.k = "large" THEN b
  ELSE Tenths(a.v + b.v)

isFiniteNumber(x) == x.k \in {"num", "large"}
below(x, n) == x.k = "num" /\ x.v < 10 * n
above(x, n) == x.k \in {"large", "inf"} \/ (x.k = "num" /\ x.v > 10 * n)

(* the message of the first duration check that fails, "" when all pass *)
durationError(hoursValue, minutesValue, total) ==
  IF ~isFiniteNumber(hoursValue) \/ below(hoursValue, 0) THEN "Hours must be >= 0."
  ELSE IF ~isFiniteNumber(minutesValue) \/ below(minutesValue, 0) \/ above(minutesValue, 59)
       THEN "Minutes must be between 0 and 59."
  ELSE IF ~above(total, 0) THEN "Total time must be greater than 0."
  ELSE ""

HourTexts ==
  { <<>>, <<"0">>, <<"1">>, <<"2">>, <<"-", "1">>, <<"1", ".", "5">>,
    <<"1", "e", "2">>, <<"1", "e", "3", "0", "8">>, <<"1", "e", "3", "0", "9">> }
MinuteTexts ==
  { <<>>, <<"0">>, <<"3", "0">>, <<"5", "9">>, <<"6", "0">>, <<"-", "5">>,
    <<"0", ".", "5">>, <<"5", "9", ".", "5">>, <<"1", "e", "3", "0", "8">> }

InitDuration ==
  /\ sessions = <<>>
  /\ activityNames = EmptyMap
  /\ activityUsage = EmptyMap
  /\ dateISO = LastDay
  /\ journalEntries = <<>>
  /\ todayISO = LastDay
  /\ now = 1
  /\ selectedWord = <<>>
  /\ isPanelOpen = FALSE
  /\ activity = <<>>
  /\ hours = <<>>
  /\ minutes = <<>>
  /\ error = NoError
  /\ showDropdown = FALSE
  /\ activityInput = <<>>
  /\ last = NoCascade
  /\ \E h \in HourTexts, m \in MinuteTexts :
       call = [fn |-> "addSession duration", hours |-> h, minutes |-> m,
               submitted |-> FALSE]

(* addSession on a named activity of a date that is not in the future and  *)
(* has no session of it yet: what it reports, and the minutes of the       *)
(* session it stores                                                       *)
SubmitDuration ==
  /\ call.fn = "addSession duration"
  /\ ~call.submitted
  /\ LET hoursValue == orZero(NumberOfText(call.hours))
         minutesValue == orZero(NumberOfText(call.minutes))
         total == plus(times60(hoursValue), minutesValue)
         invalid == durationError(hoursValue, minutesValue, total)
     IN call' = [fn |-> call.fn, hours |-> call.hours, minutes |-> call.minutes,
                 submitted |-> TRUE, error |-> invalid,
                 newSession |-> IF invalid = "" THEN <<[minutes |-> total]>> ELSE <<>>]
  /\ UNCHANGED <<store, view, form, last>>

SpecDuration == InitDuration /\ [][SubmitDuration]_vars

(* The form, one handler at a time. *)
NextForm ==
  \/ AddSession
  \/ \E value \in NameInputs : HandleActivityChange(value)
  \/ \E value \in HourInputs : SetHours(value)
  \/ \E value \in MinuteInputs : SetMinutes(value)
  \/ HandleActivityFocus
  \/ HandleActivitySelect
  \/ \E d \in Days : ReadClock(d)

SpecForm == Init /\ [][NextForm]_vars

(* The activity input between focus and blur: the user types and submits  *)
(* while the input has focus, and a click on a dropdown item lands after   *)
(* the blur it causes.                                                     *)
InitDropdown ==
  /\ sessions = <<>>
  /\ journalEntries = <<>>
  /\ activityUsage = EmptyMap
  /\ activityNames = EmptyMap
  /\ todayISO = LastDay
  /\ dateISO = todayISO
  /\ now = 1
  /\ selectedWord = <<>>
  /\ isPanelOpen = FALSE
  /\ activity = <<>>
  /\ hours = <<>>
  /\ minutes = <<>>
  /\ error = NoError
  /\ showDropdown = FALSE
  /\ activityInput = <<>>
  /\ last = NoCascade
  /\ call = [fn |-> "activity input", focused |-> FALSE, timers |-> 0]

NextDropdown ==
  \/ FocusInput
  \/ HandleActivityBlur
  \/ HideTimerFires
  \/ \E value \in NameInputs : call.focused /\ HandleActivityChange(value)
  \/ \E value \in NameInputs, h \in StoreHours, m \in StoreMinutes :
        call.focused /\ TypeAndSubmit(value, h, m)
  \/ ~call.focused /\ HandleActivitySelect

SpecDropdown == InitDropdown /\ [][NextDropdown]_vars

(* ---------------- the derived values, on a loaded store ----------------- *)
SeqsUpTo(S, n) == UNION {[1..k -> S] : k \in 0..n}

(* sessions parsed from localStorage, each with an id of its own *)
StoredSessions(names, durations, days, n) ==
  {[i \in 1..Len(raw) |->
      [id |-> i, activity |-> raw[i].activity, minutes |-> raw[i].minutes,
       dateISO |-> raw[i].dateISO]] :
     raw \in SeqsUpTo([activity : names, minutes : durations, dateISO : days], n)}

(* display-name maps: the key's own spelling, or a capitalised one *)
StoredNameMaps(names) ==
  {EmptyMap,
   [k \in {normalizeActivityName(a) : a \in names} |->
      IF k = <<"r">> THEN <<"R">> ELSE IF k = <<"t">> THEN <<"T">> ELSE k]}

StoredUsageMaps(names) ==
  LET keys == {normalizeActivityName(a) : a \in names}
  IN UNION {[used -> 1..MaxNow] : used \in SUBSET keys}

(* everything but the stores, as it is at launch *)
ViewAtLaunch ==
  /\ journalEntries = <<>>
  /\ todayISO = LastDay
  /\ now = 1
  /\ selectedWord = <<>>
  /\ isPanelOpen = FALSE
  /\ activity = <<>>
  /\ hours = <<>>
  /\ minutes = <<>>
  /\ error = NoError
  /\ showDropdown = FALSE
  /\ activityInput = <<>>
  /\ last = NoCascade
  /\ call = NoCall

InitAggregate ==
  /\ sessions \in StoredSessions(StoredNames, StoredMinutes, Days, MaxLen)
  /\ activityNames \in StoredNameMaps(StoredNames)
  /\ activityUsage = EmptyMap
  /\ dateISO \in Days
  /\ ViewAtLaunch

(* the render computes cloudData *)
RenderCloud ==
  /\ call = NoCall
  /\ call' = [fn |-> "aggregateForDate", result |-> cloudData]
  /\ UNCHANGED <<store, view, form, last>>

NextAggregate == RenderCloud

SpecAggregate == InitAggregate /\ [][NextAggregate]_vars

(* the earlier App component renders the same stored sessions *)
RenderCloud_trimKey ==
  /\ call = NoCall
  /\ call' = [fn |-> "aggregateForDate (trim key)",
              result |-> aggregateForDate_trimKey(sessions, dateISO)]
  /\ UNCHANGED <<store, view, form, last>>

NextAggregators == RenderCloud \/ RenderCloud_trimKey

SpecAggregators == InitAggregate /\ [][NextAggregators]_vars

InitRank ==
  /\ sessions \in StoredSessions(RankedNames, {1}, {LastDay}, MaxLen)
  /\ activityNames \in StoredNameMaps(RankedNames)
  /\ activityUsage \in StoredUsageMaps(RankedNames)
  /\ dateISO = LastDay
  /\ ViewAtLaunch

(* the render computes allActivities *)
RenderActivities ==
  /\ call = NoCall
  /\ call' = [fn |-> "allActivities", result |-> allActivities]
  /\ UNCHANGED <<store, view, form, last>>

NextRank == RenderActivities

SpecRank == InitRank /\ [][NextRank]_vars

NoDate == [y |-> 0, m |-> 0, d |-> 0]

RefDates ==
  {[y |-> y, m |-> m, d |-> d] : y \in RefYears, m \in 1..12, d \in 1..31}

InitRange ==
  /\ sessions = <<>>
  /\ activityNames = EmptyMap
  /\ activityUsage = EmptyMap
  /\ dateISO = LastDay
  /\ journalEntries = <<>>
  /\ todayISO = LastDay
  /\ now = 1
  /\ selectedWord = <<>>
  /\ isPanelOpen = FALSE
  /\ activity = <<>>
  /\ hours = <<>>
  /\ minutes = <<>>
  /\ error = NoError
  /\ showDropdown = FALSE
  /\ activityInput = <<>>
  /\ last = NoCascade
  /\ \E referenceDate \in RefDates, range \in TimeRanges, tz \in TimeZones :
       /\ referenceDate.d <= DaysInMonth(referenceDate.y, referenceDate.m)
       /\ call = [fn |-> "getTimeRange", referenceDate |-> referenceDate,
                  range |-> range, tz |-> tz, start |-> NoDate, end |-> NoDate]

GetTimeRangeStart ==
  /\ call.start = NoDate
  /\ call' = [call EXCEPT !.start = getTimeRangeStart(call.referenceDate, call.range, call.tz)]
  /\ UNCHANGED <<store, view, form, last>>

GetTimeRangeEnd ==
  /\ call.end = NoDate
  /\ call' = [call EXCEPT !.end = getTimeRangeEnd(call.referenceDate, call.range, call.tz)]
  /\ UNCHANGED <<store, view, form, last>>

NextRange == GetTimeRangeStart \/ GetTimeRangeEnd

SpecRange == InitRange /\ [][NextRange]_vars

(* ------------------- TrendGraph: the daily totals ---------------------- *)
(* the for loop of generateDateRange, from the time value d up to end *)
RECURSIVE generateDateLoop(_, _, _)
generateDateLoop(d, end, tz) ==
  IF d <= end
  THEN <<toISOString(d)>> \o generateDateLoop(setDate(d, tz, getDate(d, tz) + 1), end, tz)
  ELSE <<>>

generateDateRange(startDate, endDate, tz) ==
  generateDateLoop(DateFromLocalISO(startDate, tz), DateFromLocalISO(endDate, tz), tz)

(* reduce((sum, x) => sum + (x.minutes || 0), 0) *)
RECURSIVE sumMinutes(_)
sumMinutes(list) ==
  IF list = <<>> THEN 0
  ELSE sumMinutes(SubSeq(list, 1, Len(list) - 1)) + list[Len(list)].minutes

(* the week / month branch of timeData: one record per generated date *)
timeData(selected, timeRange, referenceDate, ss, tz) ==
  LET normalizedActivity == normalizeActivityName(selected)
      startDate == getTimeRangeStart(referenceDate, timeRange, tz)
      endDate == getTimeRangeEnd(referenceDate, timeRange, tz)
      dateRange == generateDateRange(startDate, endDate, tz)
      OfDay(date) ==
        LET Kept(session) ==
              /\ session.dateISO = date
              /\ session.activity # <<>>
              /\ normalizeActivityName(session.activity) = normalizedActivity
        IN SelectSeq(ss, Kept)
  IN [i \in 1..Len(dateRange) |->
        [date |-> dateRange[i],
         minutes |-> sumMinutes(OfDay(dateRange[i])),
         sessionCount |-> Len(OfDay(dateRange[i]))]]

totalMinutes(data) == sumMinutes(data)

(* the dateISO prop of the documented example, and sessions on the days   *)
(* at and next to the ends of its week and of its month                    *)
TrendReference == [y |-> 2025, m |-> 10, d |-> 15]
TrendSessionDates ==
  {[y |-> 2025, m |-> 9, d |-> 29], [y |-> 2025, m |-> 9, d |-> 30],
   [y |-> 2025, m |-> 10, d |-> 1], [y |-> 2025, m |-> 10, d |-> 11],
   [y |-> 2025, m |-> 10, d |-> 12], [y |-> 2025, m |-> 10, d |-> 13],
   [y |-> 2025, m |-> 10, d |-> 14], [y |-> 2025, m |-> 10, d |-> 15],
   [y |-> 2025, m |-> 10, d |-> 18], [y |-> 2025, m |-> 10, d |-> 19],
   [y |-> 2025, m |-> 10, d |-> 30], [y |-> 2025, m |-> 10, d |-> 31]}
TrendSessions ==
  [activity : {<<"r">>, <<"R", " ">>, <<"s">>}, minutes : {15, 30},
   dateISO : TrendSessionDates]

InitTrend ==
  /\ sessions = <<>>
  /\ activityNames = EmptyMap
  /\ activityUsage = EmptyMap
  /\ dateISO = LastDay
  /\ journalEntries = <<>>
  /\ todayISO = LastDay
  /\ now = 1
  /\ selectedWord = <<>>
  /\ isPanelOpen = FALSE
  /\ activity = <<>>
  /\ hours = <<>>
  /\ minutes = <<>>
  /\ error = NoError
  /\ showDropdown = FALSE
  /\ activityInput = <<>>
  /\ last = NoCascade
  /\ \E ss \in SeqsUpTo(TrendSessions, 2), timeRange \in {"week", "month"}, tz \in TimeZones :
       call = [fn |-> "TrendGraph", activity |-> <<"R">>, timeRange |-> timeRange,
               dateISO |-> TrendReference, sessions |-> ss, tz |-> tz,
               rendered |-> FALSE]

(* one render of TrendGraph *)
RenderTrend ==
  /\ call.fn = "TrendGraph"
  /\ ~call.rendered
  /\ call' = [fn |-> call.fn, activity |-> call.activity, timeRange |-> call.timeRange,
              dateISO |-> call.dateISO, sessions |-> call.sessions, tz |-> call.tz,
              rendered |-> TRUE,
              totalMinutes |->
                totalMinutes(timeData(call.activity, call.timeRange, call.dateISO,
                                      call.sessions, call.tz))]
  /\ UNCHANGED <<store, view, form, last>>

SpecTrend == InitTrend /\ [][RenderTrend]_vars

(* ===================== the word cloud (D3WordCloud) ==================== *)
(* the data prop: words over two texts, with a value that the cleaning      *)
(* step drops; the layoutKey prop, absent or given                          *)
CloudTexts == { <<"r">>, <<"s">> }
CloudValues == {0, 1, 2}
CloudData == SeqsUpTo([text : CloudTexts, value : CloudValues], MaxLen)
LayoutKeys == { <<>>, <<"w">> }

MIN_SIZE == 14
DefaultWidth == 900
DefaultHeight == 520

Max(S) == CHOOSE x \in S : \A y \in S : y <= x
Min(S) == CHOOSE x \in S : \A y \in S : x <= y

(* words: entries with a text and a positive value *)
cleanWords(data) ==
  LET Kept(d) == d.text # <<>> /\ d.value > 0 IN SelectSeq(data, Kept)

(* `${w.value}` for a small non-negative integer *)
DigitChar(d) ==
  CASE d = 0 -> "0" [] d = 1 -> "1" [] d = 2 -> "2" [] d = 3 -> "3"
    [] d = 4 -> "4" [] d = 5 -> "5" [] d = 6 -> "6" [] d = 7 -> "7"
    [] d = 8 -> "8" [] d = 9 -> "9"

RECURSIVE NumberToString(_)
NumberToString(n) ==
  IF n < 10 THEN <<DigitChar(n)>>
  ELSE Append(NumberToString(n \div 10), DigitChar(n % 10))

(* words.slice().sort((a,b) => a.text.localeCompare(b.text)), stable *)
RECURSIVE insertByText(_, _)
insertByText(sorted, x) ==
  IF sorted = <<>> THEN <<x>>
  ELSE IF LocaleCompare(sorted[Len(sorted)].text, x.text) > 0
       THEN Append(insertByText(SubSeq(sorted, 1, Len(sorted) - 1), x),
                   sorted[Len(sorted)])
       ELSE Append(sorted, x)

RECURSIVE sortByText(_)
sortByText(list) ==
  IF list = <<>> THEN <<>>
  ELSE insertByText(sortByText(SubSeq(list, 1, Len(list) - 1)), list[Len(list)])

(* .map(w => `${w.text}:${w.value}`).join('|') *)
RECURSIVE joinSignature(_)
joinSignature(list) ==
  IF list = <<>> THEN <<>>
  ELSE LET w == Head(list)
           piece == w.text \o <<":">> \o NumberToString(w.value)
       IN IF Tail(list) = <<>> THEN piece
          ELSE piece \o <<"|">> \o joinSignature(Tail(list))

derivedKey(words, layoutKey) ==
  IF layoutKey # <<>> THEN layoutKey
  ELSE <<"a", "u", "t", "o", ":">> \o joinSignature(sortByText(words))

charCodeAt(c) ==
  CASE c = "0" -> 48 [] c = "1" -> 49 [] c = "2" -> 50 [] c = "3" -> 51
    [] c = "4" -> 52 [] c = "5" -> 53 [] c = "6" -> 54 [] c = "7" -> 55
    [] c = "8" -> 56 [] c = "9" -> 57 [] c = ":" -> 58 [] c = "|" -> 124
    [] c = "a" -> 97 [] c = "o" -> 111 [] c = "r" -> 114 [] c = "s" -> 115
    [] c = "t" -> 116 [] c = "u" -> 117 [] c = "w" -> 119

(* h = (h << 5) - h + code; h |= 0: 31 h + code modulo 2^32, kept as two   *)
(* 16-bit halves                                                           *)
hashStep(h, code) ==
  LET lo == 31 * h.lo + code
      hi == 31 * h.hi + (lo \div 65536)
  IN [hi |-> hi % 65536, lo |-> lo % 65536]

RECURSIVE hashLoop(_, _)
hashLoop(str, h) ==
  IF str = <<>> THEN h ELSE hashLoop(Tail(str), hashStep(h, charCodeAt(Head(str))))

(* the unsigned 32-bit value h >>> 0 *)
hashString(str) == hashLoop(str, [hi |-> 0, lo |-> 0])

(* mulberry32(seed): the generator's state starts at seed >>> 0 *)
mulberry32(seed) == [t |-> seed]

(* the canvas shrinks when there are few words: Math.round(side * shrink)  *)
shrinkPercent(count) == IF count <= 4 THEN 85 ELSE IF count <= 8 THEN 92 ELSE 100

tuned(side, count) == (2 * side * shrinkPercent(count) + 100) \div 200

(* Math.max(...values, 1) and Math.min(...values, 0) *)
maxV(words) == Max({words[i].value : i \in 1..Len(words)} \cup {1})

minV(words) == Min({words[i].value : i \in 1..Len(words)} \cup {0})

(* norm(v), a fraction *)
norm(v, words) ==
  [num |-> v - minV(words), den |-> Max({1, maxV(words) - minV(words)})]

(* Math.min(tunedWidth, tunedHeight) *)
canvasMin(width, height, count) == Min({tuned(width, count), tuned(height, count)})

(* Math.max(MIN_SIZE + 8, Math.floor(canvasMin * MAX_SIZE_CAP_FRAC)) *)
maxSizeOn(shorterSide) == Max({MIN_SIZE + 8, (shorterSide * 30) \div 100})

MAX_SIZE(count) == maxSizeOn(canvasMin(DefaultWidth, DefaultHeight, count))

(* fontSize(v) = MIN_SIZE + max(0, norm(v))^1.8 * (MAX_SIZE - MIN_SIZE),   *)
(* written as the three numbers it is computed from                        *)
fontSizeUpTo(v, words, maxSize) ==
  [from |-> MIN_SIZE, to |-> maxSize,
   t |-> IF norm(v, words).num < 0 THEN [num |-> 0, den |-> 1] ELSE norm(v, words)]

fontSize(v, words) == fontSizeUpTo(v, words, MAX_SIZE(Len(words)))

(* words.slice().sort((a, b) => b.value - a.value), stable *)
RECURSIVE insertByValue(_, _)
insertByValue(sorted, x) ==
  IF sorted = <<>> THEN <<x>>
  ELSE IF x.value - sorted[Len(sorted)].value > 0
       THEN Append(insertByValue(SubSeq(sorted, 1, Len(sorted) - 1), x),
                   sorted[Len(sorted)])
       ELSE Append(sorted, x)

RECURSIVE sortByValue(_)
sortByValue(list) ==
  IF list = <<>> THEN <<>>
  ELSE insertByValue(sortByValue(SubSeq(list, 1, Len(list) - 1)), list[Len(list)])

prepared(words) ==
  LET sorted == sortByValue(words) IN
  [i \in 1..Len(sorted) |->
     [text |-> sorted[i].text, value |-> sorted[i].value,
      size |-> fontSize(sorted[i].value, words)]]

(* what one run of the layout effect hands to the placement engine *)
NoRun == [started |-> FALSE]

layoutRun(data, layoutKey) ==
  LET words == cleanWords(data) IN
  [started |-> TRUE,
   derivedKey |-> derivedKey(words, layoutKey),
   rng |-> mulberry32(hashString(derivedKey(words, layoutKey))),
   words |-> prepared(words)]

Reorderings(list) ==
  {[i \in 1..Len(list) |-> list[p[i]]] :
     p \in {q \in [1..Len(list) -> 1..Len(list)] :
              \A i, j \in 1..Len(list) : q[i] = q[j] => i = j}}

(* two mounts of the component, the second on a reordering of the first's  *)
(* data, with the same layoutKey                                           *)
InitCloud ==
  /\ sessions = <<>>
  /\ activityNames = EmptyMap
  /\ activityUsage = EmptyMap
  /\ dateISO = LastDay
  /\ journalEntries = <<>>
  /\ todayISO = LastDay
  /\ now = 1
  /\ selectedWord = <<>>
  /\ isPanelOpen = FALSE
  /\ activity = <<>>
  /\ hours = <<>>
  /\ minutes = <<>>
  /\ error = NoError
  /\ showDropdown = FALSE
  /\ activityInput = <<>>
  /\ last = NoCascade
  /\ \E data \in CloudData, layoutKey \in LayoutKeys :
       \E reordered \in Reorderings(data) :
         /\ cleanWords(data) # <<>>
         /\ call = [fn |-> "D3WordCloud", data |-> <<data, reordered>>,
                    layoutKey |-> layoutKey, run |-> <<NoRun, NoRun>>]

(* the layout effect of mount i *)
LayoutEffect(i) ==
  /\ ~call.run[i].started
  /\ call' = [call EXCEPT !.run[i] = layoutRun(call.data[i], call.layoutKey)]
  /\ UNCHANGED <<store, view, form, last>>

NextCloud == \E i \in {1, 2} : LayoutEffect(i)

SpecCloud == InitCloud /\ [][NextCloud]_vars

(* The layout effect with the selectedWord and color props: the words as   *)
(* handed to the placement engine, fill included.                          *)
fillOf(text, selected, color) == IF text = selected THEN "#f59e0b" ELSE color

(* variant: the selected word is drawn at the largest size *)
preparedFor_selectedLargest(words, selected, color) ==
  LET sorted == sortByValue(words) IN
  [i \in 1..Len(sorted) |->
     [text |-> sorted[i].text, value |-> sorted[i].value,
      size |-> IF sorted[i].text = selected
               THEN fontSize(maxV(words), words)
               ELSE fontSize(sorted[i].value, words),
      fill |-> fillOf(sorted[i].text, selected, color)]]

preparedFor(words, selected, color) ==
  LET sorted == sortByValue(words) IN
  [i \in 1..Len(sorted) |->
     [text |-> sorted[i].text, value |-> sorted[i].value,
      size |-> fontSize(sorted[i].value, words),
      fill |-> fillOf(sorted[i].text, selected, color)]]

layoutRunFor(data, layoutKey, selected, color) ==
  LET words == cleanWords(data) IN
  [started |-> TRUE,
   derivedKey |-> derivedKey(words, layoutKey),
   rng |-> mulberry32(hashString(derivedKey(words, layoutKey))),
   size |-> <<tuned(DefaultWidth, Len(words)), tuned(DefaultHeight, Len(words))>>,
   words |-> preparedFor(words, selected, color)]

(* the selectedWord prop: null, or the text of a word *)
Selections == {<<>>} \cup CloudTexts
Colors == {"#3b82f6", "#111"}

(* one mounted component whose selectedWord prop changes from the first    *)
(* to the second value; data, layoutKey, width, height and color stay      *)
InitSelect ==
  /\ sessions = <<>>
  /\ activityNames = EmptyMap
  /\ activityUsage = EmptyMap
  /\ dateISO = LastDay
  /\ journalEntries = <<>>
  /\ todayISO = LastDay
  /\ now = 1
  /\ selectedWord = <<>>
  /\ isPanelOpen = FALSE
  /\ activity = <<>>
  /\ hours = <<>>
  /\ minutes = <<>>
  /\ error = NoError
  /\ showDropdown = FALSE
  /\ activityInput = <<>>
  /\ last = NoCascade
  /\ \E data \in CloudData, layoutKey \in LayoutKeys, color \in Colors,
        before \in Selections, after \in Selections :
       /\ cleanWords(data) # <<>>
       /\ call = [fn |-> "D3WordCloud selection", data |-> data, layoutKey |-> layoutKey,
                  color |-> color, selectedWord |-> <<before, after>>,
                  run |-> <<NoRun, NoRun>>]

(* the layout effect for the i-th value of selectedWord *)
SelectEffect(i) ==
  /\ call.fn = "D3WordCloud selection"
  /\ ~call.run[i].started
  /\ \A j \in 1..(i - 1) : call.run[j].started
  /\ call' = [call EXCEPT !.run[i] =
                layoutRunFor(call.data, call.layoutKey, call.selectedWord[i], call.color)]
  /\ UNCHANGED <<store, view, form, last>>

NextSelect == \E i \in {1, 2} : SelectEffect(i)

SpecSelect == InitSelect /\ [][NextSelect]_vars

(* The sizes on a canvas of any width and height. *)
CanvasSides == {40, 60, 100, 520, 900}

InitCanvas ==
  /\ sessions = <<>>
  /\ activityNames = EmptyMap
  /\ activityUsage = EmptyMap
  /\ dateISO = LastDay
  /\ journalEntries = <<>>
  /\ todayISO = LastDay
  /\ now = 1
  /\ selectedWord = <<>>
  /\ isPanelOpen = FALSE
  /\ activity = <<>>
  /\ hours = <<>>
  /\ minutes = <<>>
  /\ error = NoError
  /\ showDropdown = FALSE
  /\ activityInput = <<>>
  /\ last = NoCascade
  /\ \E data \in CloudData, width \in CanvasSides, height \in CanvasSides :
       call = [fn |-> "D3WordCloud sizes", data |-> data, width |-> width,
               height |-> height, sized |-> FALSE]

(* the layout effect up to the sizes it gives the words *)
SizeWords ==
  /\ call.fn = "D3WordCloud sizes"
  /\ ~call.sized
  /\ LET words == cleanWords(call.data)
         shorter == canvasMin(call.width, call.height, Len(words))
     IN call' = [fn |-> call.fn, data |-> call.data, width |-> call.width,
                 height |-> call.height, sized |-> TRUE, canvasMin |-> shorter,
                 sizes |-> [i \in 1..Len(words) |->
                              fontSizeUpTo(words[i].value, words, maxSizeOn(shorter))]]
  /\ UNCHANGED <<store, view, form, last>>

SpecCanvas == InitCanvas /\ [][SizeWords]_vars

(* The layout effect over time.  call holds the mounted component: its     *)
(* words, runningRef.current, layoutWords (with the number of the layout   *)
(* that produced it, 0 for the empty list), the number of layouts started, *)
(* the layouts whose completion is still pending in the engine (each with  *)
(* the words it was started on), and the layout that the registered        *)
(* cleanup stops (0 when the last effect returned none); stopped counts    *)
(* the layouts that were stopped before they completed.                    *)
MaxLayouts == 4
WordInputs ==
  { <<>>, <<[text |-> <<"r">>, value |-> 1]>>, <<[text |-> <<"s">>, value |-> 2]>>,
    <<[text |-> <<"r">>, value |-> 1], [text |-> <<"s">>, value |-> 2]>> }

NoLayoutWords == [by |-> 0, ws |-> <<>>]

(* layout.stop(): the engine drops the pending completion *)
stop_keepsTimer(timers, k) == timers

stop(timers, k) == {t \in timers : t.id # k}

InitEffect ==
  /\ sessions = <<>>
  /\ activityNames = EmptyMap
  /\ activityUsage = EmptyMap
  /\ dateISO = LastDay
  /\ journalEntries = <<>>
  /\ todayISO = LastDay
  /\ now = 1
  /\ selectedWord = <<>>
  /\ isPanelOpen = FALSE
  /\ activity = <<>>
  /\ hours = <<>>
  /\ minutes = <<>>
  /\ error = NoError
  /\ showDropdown = FALSE
  /\ activityInput = <<>>
  /\ last = NoCascade
  /\ call = [fn |-> "D3WordCloud effect", words |-> <<>>, runningRef |-> FALSE,
             layoutWords |-> NoLayoutWords, started |-> 0, timers |-> {},
             cleanup |-> 0, stopped |-> 0]

(* A dependency of the effect changes: the previous effect's cleanup runs  *)
(* (layout.stop(), runningRef.current = false), then the effect body runs  *)
(* on the new words.  layout.start() either finishes at once, calling the  *)
(* end callback before it returns, or leaves the completion pending.       *)
RunEffect(words, finishesAtOnce) ==
  LET timersAfterCleanup ==
        IF call.cleanup # 0 THEN stop(call.timers, call.cleanup) ELSE call.timers
      runningAfterCleanup == IF call.cleanup # 0 THEN FALSE ELSE call.runningRef
      k == call.started + 1
      stopped == IF timersAfterCleanup # call.timers THEN call.stopped + 1
                 ELSE call.stopped
  IN
  /\ call.fn = "D3WordCloud effect"
  /\ call.started < MaxLayouts
  /\ call' =
       IF words = <<>> \/ runningAfterCleanup
       THEN [call EXCEPT !.words = words,
                         !.timers = timersAfterCleanup,
                         !.runningRef = runningAfterCleanup,
                         !.layoutWords = IF words = <<>> THEN NoLayoutWords ELSE @,
                         !.cleanup = 0, !.stopped = stopped]
       ELSE IF finishesAtOnce
       THEN [call EXCEPT !.words = words,
                         !.timers = timersAfterCleanup,
                         !.started = k,
                         !.layoutWords = [by |-> k, ws |-> prepared(words)],
                         !.runningRef = FALSE,
                         !.cleanup = k, !.stopped = stopped]
       ELSE [call EXCEPT !.words = words,
                         !.timers = timersAfterCleanup \cup {[id |-> k, words |-> words]},
                         !.started = k,
                         !.runningRef = TRUE,
                         !.cleanup = k, !.stopped = stopped]
  /\ UNCHANGED <<store, view, form, last>>

(* the engine completes layout k: .on('end', ws => ...) *)
LayoutEnd(k) ==
  /\ call.fn = "D3WordCloud effect"
  /\ \E t \in call.timers :
       /\ t.id = k
       /\ call' = [call EXCEPT !.layoutWords = [by |-> k, ws |-> prepared(t.words)],
                               !.runningRef = FALSE,
                               !.timers = @ \ {t}]
  /\ UNCHANGED <<store, view, form, last>>

NextEffect ==
  \/ \E words \in WordInputs, finishesAtOnce \in BOOLEAN : RunEffect(words, finishesAtOnce)
  \/ \E k \in 1..MaxLayouts : LayoutEnd(k)

SpecEffect == InitEffect /\ [][NextEffect]_vars

(* The component over time, renders included.  call is as for the layout   *)
(* effect, with the layoutWords that the last completed render saw and     *)
(* whether the component is still mounted.  A render calls six hooks and   *)
(* returns null while layoutWords is empty, and calls a seventh (the click *)
(* handler's useEffect) when it is not; React throws when a render calls a *)
(* different number of hooks than the one before, and with no error        *)
(* boundary the tree is unmounted.                                         *)
hooksCalled(layoutWords) == IF layoutWords.ws = <<>> THEN 6 ELSE 7

InitRender ==
  /\ sessions = <<>>
  /\ activityNames = EmptyMap
  /\ activityUsage = EmptyMap
  /\ dateISO = LastDay
  /\ journalEntries = <<>>
  /\ todayISO = LastDay
  /\ now = 1
  /\ selectedWord = <<>>
  /\ isPanelOpen = FALSE
  /\ activity = <<>>
  /\ hours = <<>>
  /\ minutes = <<>>
  /\ error = NoError
  /\ showDropdown = FALSE
  /\ activityInput = <<>>
  /\ last = NoCascade
  /\ call = [fn |-> "D3WordCloud effect", words |-> <<>>, runningRef |-> FALSE,
             layoutWords |-> NoLayoutWords, started |-> 0, timers |-> {},
             cleanup |-> 0, stopped |-> 0,
             rendered |-> NoLayoutWords, mounted |-> TRUE]

(* the parent renders the component with new props *)
PropsChange(words, finishesAtOnce) ==
  /\ call.mounted
  /\ call.layoutWords = call.rendered
  /\ words # call.words
  /\ RunEffect(words, finishesAtOnce)

(* the end callback of layout k, while the component is mounted *)
LayoutEndMounted(k) == call.mounted /\ LayoutEnd(k)

(* the render that setLayoutWords scheduled *)
Rerender ==
  /\ call.fn = "D3WordCloud effect"
  /\ call.mounted
  /\ call.layoutWords # call.rendered
  /\ call' = IF hooksCalled(call.layoutWords) = hooksCalled(call.rendered)
             THEN [call EXCEPT !.rendered = call.layoutWords]
             ELSE [call EXCEPT !.mounted = FALSE,
                               !.timers = IF call.cleanup # 0
                                          THEN stop(call.timers, call.cleanup) ELSE @,
                               !.runningRef = FALSE,
                               !.cleanup = 0,
                               !.layoutWords = NoLayoutWords,
                               !.rendered = NoLayoutWords]
  /\ UNCHANGED <<store, view, form, last>>

(* the page is loaded again after the tree was unmounted: a new instance   *)
(* of the component, at first without data (the numbering of the layouts   *)
(* goes on)                                                                *)
Reload ==
  /\ call.fn = "D3WordCloud effect"
  /\ ~call.mounted
  /\ call' = [call EXCEPT !.mounted = TRUE, !.words = <<>>]
  /\ UNCHANGED <<store, view, form, last>>

NextRender ==
  \/ \E words \in WordInputs, finishesAtOnce \in BOOLEAN : PropsChange(words, finishesAtOnce)
  \/ \E k \in 1..MaxLayouts : LayoutEndMounted(k)
  \/ Rerender
  \/ Reload

(* the engine's timer and React's scheduled render both get to run *)
SpecRender ==
  /\ InitRender
  /\ [][NextRender]_vars
  /\ WF_vars(\E k \in 1..MaxLayouts : LayoutEndMounted(k))
  /\ WF_vars(Rerender)

(* ==================== loading the persisted state ====================== *)
(* what localStorage.getItem can return for a key: null when the key is    *)
(* absent, else the stored string                                          *)
Absent == [stored |-> FALSE, text |-> ""]
StoredTexts == {"", "{", "null", "5", "\"x\"", "[]", "[1]", "{}", "{\"r\":\"R\"}"}
StorageValues == {Absent} \cup {[stored |-> TRUE, text |-> t] : t \in StoredTexts}

(* JSON.parse on these texts: the value, or a SyntaxError *)
JSONparse(text) ==
  CASE text = "null" -> [type |-> "null"]
    [] text = "5" -> [type |-> "number"]
    [] text = "\"x\"" -> [type |-> "string"]
    [] text = "[]" -> [type |-> "array", length |-> 0]
    [] text = "[1]" -> [type |-> "array", length |-> 1]
    [] text = "{}" -> [type |-> "object", keys |-> 0]
    [] text = "{\"r\":\"R\"}" -> [type |-> "object", keys |-> 1]
    [] OTHER -> [type |-> "SyntaxError"]

EmptyArray == [type |-> "array", length |-> 0]
EmptyObject == [type |-> "object", keys |-> 0]

(* raw ? JSON.parse(raw) : fallback, inside try / catch *)
parseOr(raw, fallback) ==
  IF ~raw.stored \/ raw.text = "" THEN fallback
  ELSE IF JSONparse(raw.text).type = "SyntaxError" THEN fallback
  ELSE JSONparse(raw.text)

(* the initial value of sessions and of journalEntries *)
loadArray(raw) ==
  IF parseOr(raw, EmptyArray).type = "array" THEN parseOr(raw, EmptyArray) ELSE EmptyArray

(* the initial value of activityUsage and of activityNames *)
loadMap(raw) == parseOr(raw, EmptyObject)

InitLoad ==
  /\ sessions = <<>>
  /\ activityNames = EmptyMap
  /\ activityUsage = EmptyMap
  /\ dateISO = LastDay
  /\ journalEntries = <<>>
  /\ todayISO = LastDay
  /\ now = 1
  /\ selectedWord = <<>>
  /\ isPanelOpen = FALSE
  /\ activity = <<>>
  /\ hours = <<>>
  /\ minutes = <<>>
  /\ error = NoError
  /\ showDropdown = FALSE
  /\ activityInput = <<>>
  /\ last = NoCascade
  /\ \E storage \in [{"sessions", "journal", "activityUsage", "activityNames"} -> StorageValues] :
       call = [fn |-> "useState initializers", storage |-> storage, mounted |-> FALSE]

(* the four lazy initializers run at the first render *)
Mount ==
  /\ call.fn = "useState initializers"
  /\ ~call.mounted
  /\ call' = [fn |-> call.fn, storage |-> call.storage, mounted |-> TRUE,
              sessions |-> loadArray(call.storage["sessions"]),
              journalEntries |-> loadArray(call.storage["journal"]),
              activityUsage |-> loadMap(call.storage["activityUsage"]),
              activityNames |-> loadMap(call.storage["activityNames"])]
  /\ UNCHANGED <<store, view, form, last>>

SpecLoad == InitLoad /\ [][Mount]_vars

(* ======================= saving the state ============================== *)
(* The five save effects.  call holds the in-memory value of each slot's   *)
(* state (the stores by their number of records or keys, each setState     *)
(* call of a handler giving a new array or object), what localStorage      *)
(* holds under the slot's key, the effects scheduled by a render and not   *)
(* yet run, and whether clearAll has removed the sessions key.  Every     *)
(* setItem succeeds.                                                       *)
Slots == {"sessions", "lastDate", "journal", "activityUsage", "activityNames"}

(* JSON.stringify(value), and the date written as it is *)
serialized(slot, value) ==
  IF slot = "lastDate" THEN <<"raw", value>> ELSE <<"json", value>>

(* getItem gives null for a key that is not stored *)
NotStored == <<>>

(* localStorage.removeItem(key) *)
removeItem(storage, slot) == [storage EXCEPT ![slot] = NotStored]

(* variant: an effect is scheduled only when the new value differs *)
effectsAfter_ifValueChanged(pending, slot, old, new) ==
  IF old = new THEN pending ELSE pending \cup {slot}

(* the effects pending after setState: a new array or object always        *)
(* re-renders and changes the effect's dependency; an equal string (the    *)
(* date) makes React bail out                                              *)
effectsAfter(pending, slot, old, new) ==
  IF slot = "lastDate" /\ old = new THEN pending ELSE pending \cup {slot}

(* the component after setState of the given slots to the given values *)
SetState(c, values) ==
  [c EXCEPT
     !.mem = [slot \in Slots |->
                IF slot \in DOMAIN values THEN values[slot] ELSE c.mem[slot]],
     !.pending = {slot \in Slots :
                    \/ slot \in c.pending
                    \/ /\ slot \in DOMAIN values
                       /\ slot \in effectsAfter(c.pending, slot, c.mem[slot], values[slot])}]

(* first render: every effect is scheduled, whatever the storage holds *)
InitPersist ==
  /\ sessions = <<>>
  /\ activityNames = EmptyMap
  /\ activityUsage = EmptyMap
  /\ dateISO = LastDay
  /\ journalEntries = <<>>
  /\ todayISO = LastDay
  /\ now = 1
  /\ selectedWord = <<>>
  /\ isPanelOpen = FALSE
  /\ activity = <<>>
  /\ hours = <<>>
  /\ minutes = <<>>
  /\ error = NoError
  /\ showDropdown = FALSE
  /\ activityInput = <<>>
  /\ last = NoCascade
  /\ \E held \in {NotStored, <<"{">>} :
       call = [fn |-> "save effects",
               mem |-> [slot \in Slots |-> IF slot = "lastDate" THEN LastDay ELSE 0],
               storage |-> [slot \in Slots |-> held], pending |-> Slots,
               removed |-> FALSE]

Saving == call.fn = "save effects"

(* addSession accepted: sessions, activityUsage and activityNames are set *)
AddSessionSaves ==
  /\ Saving
  /\ call.mem["sessions"] < 1
  /\ \E keys \in {call.mem["activityNames"], 1} :
       call' = SetState(call, [sessions |-> call.mem["sessions"] + 1,
                               activityUsage |-> keys, activityNames |-> keys])
  /\ UNCHANGED <<store, view, form, last>>

(* clearDay confirmed: the filter gives a new array of the kept sessions *)
ClearDaySaves(kept) ==
  /\ Saving
  /\ kept <= call.mem["sessions"]
  /\ call' = SetState(call, [sessions |-> kept])
  /\ UNCHANGED <<store, view, form, last>>

(* clearAll confirmed: setSessions([]) and then removeItem *)
ClearAllSaves ==
  /\ Saving
  /\ call' = [SetState(call, [sessions |-> 0]) EXCEPT
                !.storage = removeItem(call.storage, "sessions"),
                !.removed = TRUE]
  /\ UNCHANGED <<store, view, form, last>>

(* handleDeleteActivity: both stores are filtered *)
DeleteActivitySaves(keptSessions, keptEntries) ==
  /\ Saving
  /\ keptSessions <= call.mem["sessions"]
  /\ keptEntries <= call.mem["journal"]
  /\ call' = SetState(call, [sessions |-> keptSessions, journal |-> keptEntries])
  /\ UNCHANGED <<store, view, form, last>>

(* the journal handlers: save appends, update maps, delete filters *)
JournalSaves(entries) ==
  /\ Saving
  /\ entries <= call.mem["journal"] + 1
  /\ call' = SetState(call, [journal |-> entries])
  /\ UNCHANGED <<store, view, form, last>>

(* handleActivitySelect: activityUsage is set *)
SelectSaves ==
  /\ Saving
  /\ call.mem["activityUsage"] > 0
  /\ call' = SetState(call, [activityUsage |-> call.mem["activityUsage"]])
  /\ UNCHANGED <<store, view, form, last>>

(* the date bar: setDateISO *)
DateSaves(d) ==
  /\ Saving
  /\ call' = SetState(call, [lastDate |-> d])
  /\ UNCHANGED <<store, view, form, last>>

(* one save effect runs *)
RunSaveEffect(slot) ==
  /\ Saving
  /\ slot \in call.pending
  /\ call' = [call EXCEPT
                !.pending = @ \ {slot},
                !.storage[slot] = serialized(slot, call.mem[slot])]
  /\ UNCHANGED <<store, view, form, last>>

NextPersist ==
  \/ AddSessionSaves
  \/ \E kept \in 0..1 : ClearDaySaves(kept)
  \/ ClearAllSaves
  \/ \E keptSessions \in 0..1, keptEntries \in 0..1 :
       DeleteActivitySaves(keptSessions, keptEntries)
  \/ \E entries \in 0..1 : JournalSaves(entries)
  \/ SelectSaves
  \/ \E d \in Days : DateSaves(d)
  \/ \E slot \in Slots : RunSaveEffect(slot)

SpecPersist == InitPersist /\ [][NextPersist]_vars

(* ======================= properties of the stores ====================== *)
(* the canonical key of the specification: trim(lowercase(name)) *)
CanonicalKey(name) == Trim(ToLowerCase(name))

DuplicateMessage == "Activity already exists for this date."

SessionsOn(k, d) ==
  {i \in 1..Len(sessions) :
     sessions[i].dateISO = d /\ CanonicalKey(sessions[i].activity) = k}

(* the total the word cloud shows for key k on the viewed date, 0 if none *)
RECURSIVE SumMinutes(_, _)
SumMinutes(ss, idx) ==
  IF idx = {} THEN 0
  ELSE LET i == CHOOSE j \in idx : TRUE
       IN ss[i].minutes + SumMinutes(ss, idx \ {i})

(* C1: from an empty store, whatever is added, cleared, deleted or          *)
(* navigated, no two stored sessions have the same canonical activity key   *)
(* and the same dateISO.                                                    *)
C1_NoDuplicateSessions ==
  \A i, j \in 1..Len(sessions) :
    (/\ CanonicalKey(sessions[i].activity) = CanonicalKey(sessions[j].activity)
     /\ sessions[i].dateISO = sessions[j].dateISO) => i = j

(* a second casing of a stored key was just refused on the viewed date,     *)
(* while the same key is stored under two casings on two dates              *)
C1_Witness ==
  /\ error.msg = DuplicateMessage
  /\ \E i, j \in 1..Len(sessions) :
       /\ sessions[i].activity # sessions[j].activity
       /\ CanonicalKey(sessions[i].activity) = CanonicalKey(sessions[j].activity)
       /\ sessions[i].dateISO # sessions[j].dateISO
  /\ SessionsOn(CanonicalKey(activity), dateISO) # {}

(* the submission of name b with duration h, m is one the date and the      *)
(* duration checks accept, and a session with b's canonical key is stored   *)
(* on the viewed date                                                       *)
C2_DuplicateSubmission(b, h, m) ==
  /\ \E i \in 1..Len(sessions) :
       /\ sessions[i].dateISO = dateISO
       /\ CanonicalKey(sessions[i].activity) = CanonicalKey(b)
  /\ dateISO <= todayISO
  /\ Trim(b) # <<>>
  /\ LET hoursValue == Number(h)
         minutesValue == Number(m)
     IN /\ hoursValue.k = "num" /\ hoursValue.v >= 0
        /\ minutesValue.k = "num" /\ minutesValue.v >= 0 /\ minutesValue.v <= 59
        /\ hoursValue.v * 60 + minutesValue.v > 0

(* C2: adding b on a date that already holds a session with b's canonical   *)
(* key is refused with the duplicate error naming the key's recorded        *)
(* display name; sessions, activityUsage, activityNames and the viewed date *)
(* stay as they are, and with them the day's aggregate, which is computed   *)
(* from sessions, dateISO and activityNames alone.                          *)
C2_DuplicateRejected ==
  [][\A b \in StoreNames, h \in StoreHours, m \in StoreMinutes :
       (C2_DuplicateSubmission(b, h, m) /\ TypeAndSubmit(b, h, m)) =>
         /\ error'.msg = DuplicateMessage
         /\ error'.name = (IF CanonicalKey(b) \in DOMAIN activityNames
                           THEN activityNames[CanonicalKey(b)]
                           ELSE CanonicalKey(b))
         /\ sessions' = sessions
         /\ activityUsage' = activityUsage
         /\ activityNames' = activityNames
         /\ dateISO' = dateISO]_vars

(* a duplicate was refused whose typed casing is neither the stored         *)
(* session's nor the display name the error shows                           *)
C2_Witness ==
  /\ error.msg = DuplicateMessage
  /\ error.name # Trim(activity)
  /\ CanonicalKey(error.name) = CanonicalKey(activity)
  /\ \E i \in SessionsOn(CanonicalKey(activity), dateISO) :
       sessions[i].activity # Trim(activity)

(* the form as it stands fails one of addSession's validation checks *)
C3_FailsValidation ==
  \/ Trim(activity) = <<>>
  \/ Number(hours).k = "nan" \/ Number(hours).v < 0
  \/ Number(minutes).k = "nan" \/ Number(minutes).v < 0 \/ Number(minutes).v > 59
  \/ Number(hours).v * 60 + Number(minutes).v <= 0
  \/ dateISO > todayISO

C5_CascadeDelete ==
  [][(selectedWord # <<>> /\ HandleDeleteActivity) =>
       LET OtherSession(s) ==
             ~(CanonicalKey(s.activity) = CanonicalKey(selectedWord)
               /\ s.dateISO = dateISO)
           OtherEntry(e) ==
             ~(CanonicalKey(e.word) = CanonicalKey(selectedWord)
               /\ e.dateISO = dateISO)
       IN /\ sessions' = SelectSeq(sessions, OtherSession)
          /\ journalEntries' = SelectSeq(journalEntries, OtherEntry)]_vars

(* the cascade removed a session and a journal entry and left the session   *)
(* of the same activity (the only activity there is) on the other date      *)
C5_Witness ==
  /\ last.op = "handleDeleteActivity"
  /\ last.dS < 0
  /\ last.dJ < 0
  /\ Len(sessions) = 1
  /\ Cardinality(DOMAIN activityNames) = 1

(* C7 (as the code has it): the display name recorded for a canonical key   *)
(* is the casing of the latest successful addSession for that key, and no   *)
(* other step changes the map.                                              *)
C7_LastCasingRecorded ==
  [][/\ \A b \in StoreNames, h \in StoreHours, m \in StoreMinutes :
          (Len(sessions') > Len(sessions) /\ TypeAndSubmit(b, h, m)) =>
            /\ DOMAIN activityNames' = DOMAIN activityNames \cup {CanonicalKey(b)}
            /\ activityNames'[CanonicalKey(b)] = Trim(b)
            /\ \A k \in DOMAIN activityNames :
                 k # CanonicalKey(b) => activityNames'[k] = activityNames[k]
     /\ Len(sessions') <= Len(sessions) => activityNames' = activityNames]_vars

(* a key was entered under one casing and later, on another date, under     *)
(* another: the map holds the later one                                     *)
C7_Witness ==
  \E i, j \in 1..Len(sessions) :
    /\ i < j
    /\ CanonicalKey(sessions[i].activity) = CanonicalKey(sessions[j].activity)
    /\ sessions[i].activity # sessions[j].activity
    /\ activityNames[CanonicalKey(sessions[j].activity)] = sessions[j].activity

(* C7 as stated: once a display name is recorded for a key it stays, so     *)
(* the first-entered casing is kept.                                        *)
C7_FirstCasingKept ==
  [][\A k \in DOMAIN activityNames :
       k \in DOMAIN activityNames' /\ activityNames'[k] = activityNames[k]]_vars

(* ==================== properties of the derived values ================= *)
(* the display name of key k: the recorded one, else the key itself *)
DisplayOf(k) == IF k \in DOMAIN activityNames THEN activityNames[k] ELSE k

KeysOn(d) ==
  {CanonicalKey(sessions[i].activity) : i \in {j \in 1..Len(sessions) : sessions[j].dateISO = d}}

(* C4: aggregateForDate returns exactly one entry per canonical key that    *)
(* has a session on the date; the entry carries the key's display name and  *)
(* the sum of the minutes of the date's sessions of that key, and sessions  *)
(* of other dates add nothing.                                              *)
C4_AggregateByCanonicalKey ==
  call.fn = "aggregateForDate" =>
    LET result == call.result
        keys == KeysOn(dateISO)
    IN /\ Len(result) = Cardinality(keys)
       /\ \E keyOf \in [1..Len(result) -> keys] :
            /\ \A i, j \in 1..Len(result) : keyOf[i] = keyOf[j] => i = j
            /\ \A i \in 1..Len(result) :
                 /\ result[i].text = DisplayOf(keyOf[i])
                 /\ result[i].value = SumMinutes(sessions, SessionsOn(keyOf[i], dateISO))

(* two spellings of one key are summed into one entry beside the entry of   *)
(* another key, while the key also has a session on the other date          *)
C4_Witness ==
  /\ call.fn = "aggregateForDate"
  /\ Len(call.result) = 2
  /\ \E i, j, k \in 1..Len(sessions) :
       /\ sessions[i].activity # sessions[j].activity
       /\ CanonicalKey(sessions[i].activity) = CanonicalKey(sessions[j].activity)
       /\ CanonicalKey(sessions[k].activity) # CanonicalKey(sessions[i].activity)
       /\ sessions[i].dateISO = dateISO
       /\ sessions[j].dateISO = dateISO
       /\ sessions[k].dateISO = dateISO
       /\ \E e \in 1..Len(call.result) :
            call.result[e].value = sessions[i].minutes + sessions[j].minutes

(* C6: every comparison of activity names goes by the canonical key        *)
(* trim(lowercase(name)).  The duplicate check takes a stored session and  *)
(* a submitted name for the same activity, the journal filter and the      *)
(* cascade delete take a stored record and the selected word for the same  *)
(* activity, exactly when their keys are equal and the date is the viewed  *)
(* one; and every aggregateForDate of the repository puts two sessions of  *)
(* the viewed date into one entry exactly when their keys are equal, so    *)
(* its result has one entry for each key of the date, with the sum of that *)
(* key's minutes.                                                          *)
C6_EveryComparisonUsesCanonicalKey ==
  LET sessionKey == [i \in 1..Len(sessions) |-> CanonicalKey(sessions[i].activity)]
      entryKey == [i \in 1..Len(journalEntries) |-> CanonicalKey(journalEntries[i].word)]
      selectedKey == CanonicalKey(selectedWord)
      normalizedSelected == normalizeActivityName(selectedWord)
  IN
  /\ \A b \in NameInputs \cup StoredNames :
       LET typedKey == CanonicalKey(b)
           normalizedName == normalizeActivityName(Trim(b))
       IN \A i \in 1..Len(sessions) :
            isExistingActivity(sessions[i], normalizedName, dateISO)
              <=> (sessionKey[i] = typedKey /\ sessions[i].dateISO = dateISO)
  /\ selectedWord # <<>> =>
       /\ \A i \in 1..Len(journalEntries) :
            LET same == entryKey[i] = selectedKey /\ journalEntries[i].dateISO = dateISO
            IN /\ showsEntry(journalEntries[i], normalizedSelected, dateISO) <=> same
               /\ deletesEntry(journalEntries[i], normalizedSelected, dateISO) <=> same
       /\ \A i \in 1..Len(sessions) :
            deletesSession(sessions[i], normalizedSelected, dateISO)
              <=> (sessionKey[i] = selectedKey /\ sessions[i].dateISO = dateISO)
  /\ call.fn \in {"aggregateForDate", "aggregateForDate (trim key)"} =>
       /\ Len(call.result) = Cardinality(KeysOn(dateISO))
       /\ \A k \in KeysOn(dateISO) :
            \E e \in 1..Len(call.result) :
              /\ CanonicalKey(call.result[e].text) = k
              /\ call.result[e].value = SumMinutes(sessions, SessionsOn(k, dateISO))

(* the usage timestamp of a listed activity, 0 when it has none *)
UsageOf(a) ==
  IF CanonicalKey(a) \in DOMAIN activityUsage THEN activityUsage[CanonicalKey(a)] ELSE 0

(* a may stand before b in the autocomplete list *)
MayPrecede(a, b) ==
  IF UsageOf(a) > 0 /\ UsageOf(b) > 0 THEN UsageOf(a) >= UsageOf(b)
  ELSE IF UsageOf(a) > 0 THEN TRUE
  ELSE IF UsageOf(b) > 0 THEN FALSE
  ELSE LocaleCompare(ToLowerCase(a), ToLowerCase(b)) <= 0

(* C8: in allActivities every activity may precede every later one (more    *)
(* recently used first, used before unused, unused ones alphabetically      *)
(* without regard to case), and the comparator that sorts it is a total     *)
(* preorder on the listed activities: antisymmetric in sign and transitive. *)
C8_ThreeTierOrder ==
  call.fn = "allActivities" =>
    LET result == call.result
        listed == {result[i] : i \in 1..Len(result)}
        Cmp(a, b) == compareActivities(a, b, activityUsage)
    IN /\ \A i, j \in 1..Len(result) : i < j => MayPrecede(result[i], result[j])
       /\ \A a, b \in listed : (Cmp(a, b) <= 0) <=> (Cmp(b, a) >= 0)
       /\ \A a, b, c \in listed :
            (Cmp(a, b) <= 0 /\ Cmp(b, c) <= 0) => Cmp(a, c) <= 0

(* three activities are listed: a used one first, then two unused ones in   *)
(* alphabetical order although they were stored in the opposite order       *)
C8_Witness ==
  /\ call.fn = "allActivities"
  /\ Len(call.result) = 3
  /\ UsageOf(call.result[1]) > 0
  /\ UsageOf(call.result[2]) = 0
  /\ UsageOf(call.result[3]) = 0
  /\ CanonicalKey(sessions[1].activity) = CanonicalKey(call.result[3])
  /\ CanonicalKey(sessions[2].activity) = CanonicalKey(call.result[2])

(* ================= properties of the time-range helpers ================ *)
DayNumber(date) == DaysFromCivil(date.y, date.m, date.d)

(* 0 is Monday, 6 is Sunday *)
DaysSinceMonday(date) == (DayNumber(date) + 3) % 7

RangeComputed(range) ==
  /\ call.fn = "getTimeRange"
  /\ call.range = range
  /\ call.start # NoDate
  /\ call.end # NoDate

(* C9: for every reference date and zone offset the week starts on the      *)
(* Monday on or before the reference date and ends on the Sunday on or      *)
(* after it, so it holds the reference date and spans seven days.           *)
C9_WeekIsMondayToSunday ==
  RangeComputed("week") =>
    LET d == DayNumber(call.referenceDate)
        start == DayNumber(call.start)
        end == DayNumber(call.end)
    IN /\ start = d - DaysSinceMonday(call.referenceDate)
       /\ end = d + 6 - DaysSinceMonday(call.referenceDate)
       /\ start <= d /\ d <= end
       /\ end = start + 6

(* C10: for every reference date and zone offset the month starts on day 1  *)
(* of the reference date's month and ends on that month's last day, the     *)
(* 29th for a leap year's February.                                         *)
C10_MonthIsFirstToLast ==
  RangeComputed("month") =>
    /\ call.start = [call.referenceDate EXCEPT !.d = 1]
    /\ call.end = [call.referenceDate EXCEPT
                     !.d = DaysInMonth(call.referenceDate.y, call.referenceDate.m)]

(* =================== properties of the word cloud ====================== *)
BothLaidOut ==
  /\ call.fn = "D3WordCloud"
  /\ call.run[1].started
  /\ call.run[2].started

(* C11: two word lists that are reorderings of each other get the same     *)
(* layout key and so the same 32-bit seed for the generator.               *)
C11_ReorderedDataSameSeed ==
  BothLaidOut =>
    /\ call.run[1].derivedKey = call.run[2].derivedKey
    /\ call.run[1].rng = call.run[2].rng

(* C12: for the same set of words in any order, two layout runs hand the   *)
(* placement engine the same sequence of words with the same sizes and the *)
(* same seed, also when several words have equal values.                   *)
C12_ReorderedDataSameWordSequence ==
  BothLaidOut =>
    /\ call.run[1].words = call.run[2].words
    /\ call.run[1].rng = call.run[2].rng

(* C20: the normalized value the layout uses for a word of value v is      *)
(* (v - min) / max(1, max - min) with min and max the smallest and largest *)
(* value of the list, so the smallest word is at 0 (the minimum font size) *)
(* and a single word is at 0.                                              *)
C20_NormalizedBySmallestAndLargest ==
  (call.fn = "D3WordCloud" /\ call.run[1].started) =>
    LET words == call.run[1].words
        values == {words[i].value : i \in 1..Len(words)}
        smallest == Min(values)
        largest == Max(values)
    IN \A i \in 1..Len(words) :
         LET t == words[i].size.t IN
         /\ t.num * Max({1, largest - smallest}) = (words[i].value - smallest) * t.den
         /\ words[i].value = smallest => t.num = 0

(* the layout started last has number call.started *)
LayoutWritten == call.layoutWords' # call.layoutWords /\ call.layoutWords'.by # 0

Malformed(raw, shape) ==
  ~raw.stored \/ JSONparse(raw.text).type # shape

(* C15: whatever string is stored under each key, after the initial load   *)
(* sessions and journalEntries are arrays and activityUsage and            *)
(* activityNames are key-value maps, and each is the empty collection when *)
(* its stored value is missing or malformed.                               *)
C15_LoadedStateWellFormed ==
  (call.fn = "useState initializers" /\ call.mounted) =>
    /\ call.sessions.type = "array"
    /\ call.journalEntries.type = "array"
    /\ call.activityUsage.type = "object"
    /\ call.activityNames.type = "object"
    /\ Malformed(call.storage["sessions"], "array") => call.sessions = EmptyArray
    /\ Malformed(call.storage["journal"], "array") => call.journalEntries = EmptyArray
    /\ Malformed(call.storage["activityUsage"], "object") => call.activityUsage = EmptyObject
    /\ Malformed(call.storage["activityNames"], "object") => call.activityNames = EmptyObject

(* ================ properties of the stores' frame ====================== *)
(* C16: no handler removes an entry of activityNames: every canonical key  *)
(* recorded before a step is still a key after it.                         *)
C16_DisplayNamesNeverRemoved ==
  [][DOMAIN activityNames \subseteq DOMAIN activityNames']_vars

(* an activity was deleted, and a recorded key is left with no session *)
C16_Witness ==
  /\ last.op = "handleDeleteActivity"
  /\ last.dS < 0
  /\ \E k \in DOMAIN activityNames :
       \A i \in 1..Len(sessions) : normalizeActivityName(sessions[i].activity) # k

HasId(entryId) == \E i \in 1..Len(journalEntries) : journalEntries[i].id = entryId

(* C17: handleUpdateJournalEntry(id, newText) gives the entries whose id   *)
(* is id the new text and a fresh timestamp, and leaves every other entry, *)
(* the number of entries and their order as they were; with no such entry  *)
(* the journal is unchanged.                                               *)
C17_UpdateTouchesOnlyMatchingEntry ==
  [][\A entryId \in 1..MaxId, newText \in EditedTexts :
       HandleUpdateJournalEntry(entryId, newText) =>
         /\ Len(journalEntries') = Len(journalEntries)
         /\ \A i \in 1..Len(journalEntries) :
              IF journalEntries[i].id = entryId
              THEN /\ journalEntries'[i].text = newText
                   /\ journalEntries'[i].timestamp = now
                   /\ journalEntries'[i].id = entryId
                   /\ journalEntries'[i].word = journalEntries[i].word
                   /\ journalEntries'[i].dateISO = journalEntries[i].dateISO
              ELSE journalEntries'[i] = journalEntries[i]
         /\ ~HasId(entryId) => journalEntries' = journalEntries]_vars

(* the first of two entries was edited after the clock moved on; the       *)
(* second still has the text and the time it was saved with                *)
C17_Witness ==
  /\ Len(journalEntries) = 2
  /\ journalEntries[1].text \in EditedTexts
  /\ journalEntries[1].timestamp = 2
  /\ journalEntries[2].text \in JournalTexts
  /\ journalEntries[2].timestamp = 1

(* ==================== properties of the date bar ======================= *)
(* C18: a session that is created carries a date no later than today's;    *)
(* while the viewed date is in the future no session is added; and the     *)
(* next-day arrow, the Today button and the date picker leave the viewed   *)
(* date at or before today when it was at or before today.                 *)
C18_NoSessionInTheFuture ==
  [][/\ Len(sessions') > Len(sessions) =>
          sessions'[Len(sessions')].dateISO <= todayISO
     /\ dateISO > todayISO => sessions' = sessions
     /\ (dateISO <= todayISO /\ todayISO' = todayISO) => dateISO' <= todayISO]_vars

(* a future date is in view, the submission was refused with the message   *)
(* for it, and a session of an earlier submission is stored                *)
C18_Witness ==
  /\ dateISO > todayISO
  /\ error = Err("You can't add sessions for a future date.")
  /\ Len(sessions) = 1
  /\ sessions[1].dateISO = dateISO

(* ==================== properties of the trend graph ==================== *)
(* the minutes of the sessions of the selected activity dated from start   *)
(* to end, both included                                                   *)
RECURSIVE MinutesInWindow(_, _, _, _)
MinutesInWindow(ss, selected, start, end) ==
  IF ss = <<>> THEN 0
  ELSE MinutesInWindow(Tail(ss), selected, start, end)
       + (IF /\ normalizeActivityName(Head(ss).activity) = normalizeActivityName(selected)
             /\ DayNumber(start) <= DayNumber(Head(ss).dateISO)
             /\ DayNumber(Head(ss).dateISO) <= DayNumber(end)
          THEN Head(ss).minutes ELSE 0)

(* C19: for the week and the month range, every reference date and every   *)
(* zone offset, the total minutes shown for an activity are the minutes of *)
(* all sessions of that activity (by normalized name) dated from the       *)
(* range's start to its end, both ends included.                           *)
C19_TotalIsSumOverWindow ==
  (call.fn = "TrendGraph" /\ call.rendered) =>
    call.totalMinutes =
      MinutesInWindow(call.sessions, call.activity,
                      getTimeRangeStart(call.dateISO, call.timeRange, call.tz),
                      getTimeRangeEnd(call.dateISO, call.timeRange, call.tz))

(* ==================== properties of the font sizes ===================== *)
(* C21: on every canvas and for every word list each word's font size is   *)
(* at least the minimum size and at most 30% of the shorter side of the    *)
(* canvas the layout uses.  With t = norm(v) in 0..1 the size              *)
(* from + t^1.8 * (to - from) is at least from + t^2 * (to - from), which  *)
(* is the number compared with the cap here, and is equal to it at t = 1.  *)
C21_SizeWithinMinAndCap ==
  (call.fn = "D3WordCloud sizes" /\ call.sized) =>
    \A i \in 1..Len(call.sizes) :
      LET size == call.sizes[i]
          num == size.t.num * size.t.num
          den == size.t.den * size.t.den
      IN /\ size.from >= MIN_SIZE
         /\ size.to >= size.from
         /\ size.t.num >= 0
         /\ 100 * (size.from * den + num * (size.to - size.from))
              <= 30 * call.canvasMin * den

(* =================== properties of the selection ======================= *)
BothSelectionsLaidOut ==
  /\ call.fn = "D3WordCloud selection"
  /\ call.run[1].started
  /\ call.run[2].started

(* C22: when only selectedWord changes, the layout started for the new     *)
(* value gets the same seed, the same canvas, and the same words in the    *)
(* same order with the same sizes as the one before; a word differs in     *)
(* nothing but its fill, which is the highlight color for the selected     *)
(* word and the color prop for the others.                                 *)
C22_SelectionChangesOnlyFill ==
  BothSelectionsLaidOut =>
    LET a == call.run[1]
        b == call.run[2]
    IN /\ a.derivedKey = b.derivedKey
       /\ a.rng = b.rng
       /\ a.size = b.size
       /\ Len(a.words) = Len(b.words)
       /\ \A i \in 1..Len(a.words) :
            /\ a.words[i].text = b.words[i].text
            /\ a.words[i].value = b.words[i].value
            /\ a.words[i].size = b.words[i].size
            /\ \A j \in {1, 2} :
                 call.run[j].words[i].fill =
                   (IF call.run[j].words[i].text = call.selectedWord[j]
                    THEN "#f59e0b" ELSE call.color)

(* the selection moved from one word to another of a smaller value: the    *)
(* two layouts differ in the fill of both words                            *)
C22_Witness ==
  /\ BothSelectionsLaidOut
  /\ Len(call.run[1].words) = 2
  /\ call.run[1].words[1].value > call.run[1].words[2].value
  /\ call.selectedWord[1] = call.run[1].words[1].text
  /\ call.selectedWord[2] = call.run[2].words[2].text
  /\ call.run[1].words[1].fill # call.run[2].words[1].fill
  /\ call.run[1].words[2].fill # call.run[2].words[2].fill

(* ================== properties of the stored duration ================== *)
(* C23: for every hours and minutes input that addSession accepts, the     *)
(* stored minutes are hours * 60 + minutes of the input and are a positive *)
(* whole number.                                                           *)
C23_MinutesPositiveInteger ==
  (call.fn = "addSession duration" /\ call.submitted /\ call.newSession # <<>>) =>
    LET stored == call.newSession[1].minutes IN
    /\ stored = plus(times60(orZero(NumberOfText(call.hours))),
                     orZero(NumberOfText(call.minutes)))
    /\ stored.k \in {"num", "large"}
    /\ stored.k = "num" => (stored.v > 0 /\ stored.v % 10 = 0)

(* ================= properties of the save effects ====================== *)
(* C24: when no save effect is pending (every write succeeding), what is   *)
(* stored under each slot's key is the serialization of the slot's state   *)
(* in memory; after clearAll that is the serialized empty array, the       *)
(* effect running after the removeItem.                                    *)
C24_StoredEqualsSerializedState ==
  (Saving /\ call.pending = {}) =>
    \A slot \in Slots : call.storage[slot] = serialized(slot, call.mem[slot])

(* clearAll removed the key and the effect has written the empty array     *)
(* again, with everything else saved too                                   *)
C24_Witness ==
  /\ Saving
  /\ call.pending = {}
  /\ call.removed
  /\ call.mem["sessions"] = 0
  /\ call.mem["activityNames"] = 1
  /\ call.storage["sessions"] = serialized("sessions", 0)

(* ================ properties of the component over time ================ *)
(* the component shows the layout of the words w *)
Shows(w) ==
  /\ call.mounted
  /\ call.layoutWords.ws = prepared(w)
  /\ call.rendered = call.layoutWords

(* C25: for every non-empty word list that becomes the input, a layout is  *)
(* started for it and, unless the input changes again, layoutWords         *)
(* eventually is the result of that layout.                                *)
C25_LatestInputEventuallyLaidOut ==
  \A w \in WordInputs \ {<<>>} :
    (call.words = w) ~> (call.words # w \/ Shows(w))
(* C26: a hide timer scheduled by an earlier blur never closes the         *)
(* dropdown while the input has focus again and the dropdown is open       *)
C26_StaleTimerNeverCloses ==
  [][(call.focused /\ showDropdown /\ call.timers' < call.timers)
       => showDropdown']_vars

(* =================== properties of the clear buttons =================== *)
(* a step of clearDay or clearAll that removed something: sessions went    *)
(* and the cascade delete was not the handler                              *)
ClearedSomething ==
  Len(sessions') < Len(sessions) /\ last'.op # "handleDeleteActivity"

OnAnotherDate(s) == s.dateISO # dateISO

NotStoredOnDate(ss, b) ==
  \A i \in 1..Len(ss) :
    ~(ss[i].dateISO = dateISO /\ CanonicalKey(ss[i].activity) = CanonicalKey(b))

(* C28: the cascade delete of X on the viewed date, clearDay and clearAll  *)
(* leave no session of X on that date, and a submit of any casing of X     *)
(* with a valid duration on a date that is not in the future is accepted   *)
(* and appends exactly one session whenever no stored session of the date  *)
(* has X's canonical key, whatever activityNames and activityUsage hold    *)
C28_AcceptedAfterRemoval ==
  [][/\ (selectedWord # <<>> /\ HandleDeleteActivity) =>
          NotStoredOnDate(sessions', selectedWord)
     /\ (ClearDay(TRUE) \/ ClearAll(TRUE)) =>
          \A b \in StoreNames : NotStoredOnDate(sessions', b)
     /\ \A b \in StoreNames, h \in StoreHours, m \in StoreMinutes :
          (NotStoredOnDate(sessions, b) /\ dateISO <= todayISO
             /\ TypeAndSubmit(b, h, m)) =>
            /\ error' = NoError
            /\ Len(sessions') = Len(sessions) + 1
            /\ SubSeq(sessions', 1, Len(sessions)) = sessions
            /\ sessions'[Len(sessions')].activity = Trim(b)
            /\ sessions'[Len(sessions')].dateISO = dateISO]_vars

(* the only activity there is was removed on one date and added again: its *)
(* new session reuses the id of the removed one, behind the session of the *)
(* other date, while its usage and display name had stayed stored          *)
C28_Witness ==
  /\ Cardinality(DOMAIN activityNames) = 1
  /\ Len(sessions) = 2
  /\ sessions[2].id < sessions[1].id
  /\ sessions[2].dateISO = dateISO
  /\ sessions[1].dateISO # dateISO

(* ===================== properties of the autocomplete ================== *)
SessionKeys == {CanonicalKey(sessions[i].activity) : i \in 1..Len(sessions)}

(* C29: allActivities holds, for each canonical key of the current         *)
(* sessions, its display name once, and nothing else                       *)
C29_OneNamePerSessionKey ==
  /\ Len(allActivities) = Cardinality(SessionKeys)
  /\ {CanonicalKey(allActivities[i]) : i \in 1..Len(allActivities)} = SessionKeys
  /\ \A i \in 1..Len(allActivities) :
        allActivities[i] =
          (IF CanonicalKey(allActivities[i]) \in DOMAIN activityNames
           THEN activityNames[CanonicalKey(allActivities[i])]
           ELSE CanonicalKey(allActivities[i]))

(* an activity with no session left is not offered although its usage and *)
(* its display name are still stored, while another activity is offered    *)
(* once for its sessions on two dates                                      *)
C29_Witness ==
  /\ Len(sessions) = 2
  /\ Len(allActivities) = 1
  /\ \E k \in (DOMAIN activityNames) \cap (DOMAIN activityUsage) : k \notin SessionKeys

(* C30: every display name addSession recorded normalizes to the key it is *)
(* recorded under, so the comparator of the autocomplete sort, which       *)
(* normalizes the display name again, reads for every offered activity the *)
(* usage stored under the key of its sessions                              *)
C30_DisplayNameNormalizesToKey ==
  /\ \A k \in DOMAIN activityNames : CanonicalKey(activityNames[k]) = k
  /\ \A k \in SessionKeys :
        /\ k \in DOMAIN activityUsage
        /\ usageTime(activityUsage,
                     normalizeActivityName(getDisplayName(k, activityNames)))
             = activityUsage[k]

(* a display name that differs from its key is recorded and offered *)
C30_Witness ==
  \E i \in 1..Len(allActivities) :
    /\ allActivities[i] # CanonicalKey(allActivities[i])
    /\ activityNames[CanonicalKey(allActivities[i])] = allActivities[i]

====
